---- MODULE Spec2Model ----
(***************************************************************************)
(* Deploy pipeline of mcp-latitude-prompts: content-hash diff, validation  *)
(* gate, draft -> push -> publish, and failure localization.               *)
(*                                                                         *)
(* The repository holds two revisions of the API client:                   *)
(*   src/src/api.ts     (hash diff with path normalization, no             *)
(*                       localization)           -> names suffixed _api    *)
(*   src/src/server.ts  lines 105-1050 (literal diff, localization)        *)
(*                                               -> names suffixed _server *)
(* The remote service is the environment: it keeps the versions and the    *)
(* live document set, and answers every request with a value or an error.  *)
(***************************************************************************)
EXTENDS Integers, Sequences, FiniteSets, TLC

\* ---------------------------------------------------------------- bounds
\* longest change list with every status and content kind
MaxN == 3
\* transient remote faults (failures that are not document-specific)
MaxFaults == 1
\* longest incoming list and longest existing list of the diff scenario
MaxIncoming == 2
MaxExisting == 2
\* longest prompt list of a tool call
MaxPrompts == 2
\* largest batch of the sparse-failure scenario
MaxSparse == 16

\* ------------------------------------------------------------- constants
\* server.ts:791  if (nonDeleteChanges.length <= 5)
IndividualLimit == 5

\* batch sizes of the localization scenario: around the threshold, the last
\* one being the smallest batch that takes the binary-search path
BatchSizes == (IndividualLimit - 1)..(IndividualLimit + 1)

\* ------------------------------------------------------------- documents
Letters ==
    <<"a", "b", "c", "d", "e", "f", "g", "h", "i", "j", "k", "l", "m", "n", "o", "p",
      "q", "r">>

\* the path of the i-th change of a change list
PathOf(i) == <<Letters[i]>>

NoDoc == "<absent>"

NoName == "<undefined>"

\* Content kinds, told apart by what the validator and the remote say:
\*   "ok"  passes the local check and the remote's publish validation
\*   "srv" passes the local check, rejected by the remote at publish
\*   "bad" has a local error-type issue (and the remote rejects it too)
\*   "old" what a live document holds before a modification
\*   ""    the content of a deletion
Issue(type, code) == [type |-> type, code |-> code]

\* validatePromptLContent: the issues the static checker reports
validatePromptLContent(content, path) ==
    IF content = "bad" THEN <<Issue("error", "parse-error")>> ELSE <<>>

IsError(issue) == issue.type = "error"

\* localIssues.filter(i => i.type === 'error').length > 0
LocallyBad(content) == Len(SelectSeq(validatePromptLContent(content, <<>>), IsError)) > 0

RemoteRejects(content) == content \in {"srv", "bad"}

\* (status, content) pairs a change of the small scenario is drawn from
Kinds ==
    ({"added", "modified"} \X {"ok", "srv", "bad"})
        \cup {<<"deleted", "">>, <<"unchanged", "ok">>}

\* what the input schema of latitude_push_changes lets through
\* (latitude.types.ts: status is z.enum(['added', 'modified', 'deleted']))
PushChangesInputSchema ==
    ({"added", "modified"} \X {"ok"}) \cup {<<"deleted", "">>}

\* (status, content) pairs of the localization scenario
BatchKinds == {"added"} \X {"ok", "srv"}

MkChange(i, k) == [path |-> PathOf(i), content |-> k[2], status |-> k[1]]

\* ---------------------------------------------------------------- state
VARIABLES
    impl,         \* "api" or "server": the revision deployToLive is taken from;
                  \* "controller": the call is pushChanges of the controller
    changes,      \* the argument of deployToLive (of pushChanges)
    versionName,  \* the optional name argument of deployToLive
    pc,           \* position of deployToLive
    calls,        \* remote requests issued by deployToLive itself, in order
    draft,        \* uuid of the draft that deployToLive created
    commit,       \* api.ts: commitUuid of the push response
    publishError, \* the error caught from the publish step
    failedDocs,   \* what identifyFailingDocuments returned
    result,       \* what deployToLive returned or raised
    frames,       \* localization probes: interval of the batch -> its position
    mode,         \* "none", "individual" or "binary"
    live,         \* remote: the live document set, path -> content
    live0,        \* the live document set when deployToLive was called
    versions,     \* remote: version uuid -> [name, changes, status]
    faults,       \* transient faults the remote has injected so far
    tool,         \* the tool handler that runs: "push_prompts", "add_prompt",
                  \* "diff" (computeDiff alone) or "none" (deployToLive called
                  \* directly)
    prompts,      \* the prompts the handler has built from its arguments
    existingDocs, \* what listDocuments('live') returned to the handler
    hpc,          \* position of the handler
    toolResult,   \* what the handler returned
    req,          \* one call of request(): its position, timer and outcome
    clock,        \* "coarse": two Date.now() calls with no await between them
                  \* read the same millisecond; "fine": the second reads the next
    validation,   \* one call of validatePromptLContent: its position, what scan
                  \* did and what the call returned
    cache,        \* the prompt-name cache of tools.ts, the time of day and the
                  \* refreshes in flight
    files         \* the .promptl files of the output directory and what
                  \* pull_prompts wrote

vars == <<impl, changes, versionName, pc, calls, draft, commit, publishError,
          failedDocs, result, frames, mode, live, live0, versions, faults,
          tool, prompts, existingDocs, hpc, toolResult, req, clock, validation, cache, files>>

toolVars == <<tool, prompts, existingDocs, hpc, toolResult, req, clock, validation, cache, files>>

\* ------------------------------------------------------- pure operators
IsActual(c) == c.status # "unchanged"
IsNonDelete(c) == c.status # "deleted"
IsAdded(c) == c.status = "added"
IsModified(c) == c.status = "modified"
IsDeleted(c) == c.status = "deleted"

PathsOf(s) == [i \in 1..Len(s) |-> s[i].path]

\* a deploy that forgets the filter: every entry is taken for a real change
actualChanges_unfiltered == changes

\* changes.filter(c => c.status !== 'unchanged')
actualChanges == SelectSeq(changes, IsActual)

\* a localization that keeps the deletions in its batch
nonDeleteChanges_withDeletions == actualChanges

\* changes.filter(c => c.status !== 'deleted') of identifyFailingDocuments
nonDeleteChanges == SelectSeq(actualChanges, IsNonDelete)

NoError == [code |-> "none", status |-> 0, origin |-> "none", failedPaths |-> <<>>]

NoUuid == <<-1, -1>>

NoToolResult == [kind |-> "none", errors |-> <<>>, err |-> NoError]

\* a promise that has not settled
NoOutcome == [kind |-> "none", code |-> "", status |-> 0, message |-> <<>>]

\* no call of request() is under way
\* an output directory without .promptl files; dir lists the files in the
\* order they were created, written is the list pull_prompts reports
NoFiles == [dir |-> <<>>, written |-> <<>>, pulled |-> FALSE]

\* cacheLastUpdated = null
Never == -1

\* let cachedPromptNames = []; let cacheLastUpdated = null; lastFill and
\* invalidated record the history: when the cache was last filled from the
\* remote, and whether it was force-invalidated since; due and queried record
\* the latest call of getCachedPromptNames, last the latest step
NoCache ==
    [names |-> <<>>, lastUpdated |-> Never, now |-> 0, inflight |-> 0,
     registered |-> FALSE, lastFill |-> Never, invalidated |-> FALSE,
     called |-> FALSE, due |-> FALSE, queried |-> FALSE, last |-> "none"]

\* no call of validatePromptLContent is running
NoValidation ==
    [pc |-> "none", content |-> "", path |-> <<>>,
     scanned |-> [kind |-> "none", errors |-> <<>>, class |-> "", code |-> ""],
     returned |-> [kind |-> "none", issues |-> <<>>, class |-> "", code |-> ""]]

NoRequest ==
    [pc |-> "none", op |-> "none", step |-> "none", ref |-> "live",
     apiKey |-> TRUE, projectId |-> TRUE, timeout |-> 0,
     timer |-> "unset", status |-> 0, failure |-> "none", sent |-> 0,
     outcome |-> NoOutcome, returned |-> NoOutcome]

\* the uuid the remote gives the draft of deployToLive; the draft of a probe
\* gets the interval it probes (uuids are opaque and fresh, the model picks
\* one representative per request)
DeployUuid == <<0, 0>>

\* the version reference 'live' (uuids are pairs in this model)
LiveRef == <<-2, -2>>

NoVersion == [id |-> -1, uuid |-> NoUuid, status |-> "none"]

NoResult ==
    [kind |-> "none", version |-> NoVersion, documentsProcessed |-> 0,
     added |-> <<>>, modified |-> <<>>, deleted |-> <<>>, err |-> NoError]

\* ------------------------------------------------------------ Diff Engine
\* computeContentHash: sha256 of the content, a digest that differs for the
\* different contents of this model
computeContentHash(content) == <<"sha256", content>>

\* a listed document without a contentHash field
NoHash == <<"undefined">>

RECURSIVE TrimStart(_, _)
\* s without its leading run of ch
TrimStart(s, ch) ==
    IF s # <<>> /\ Head(s) = ch THEN TrimStart(Tail(s), ch) ELSE s

RECURSIVE TrimEnd(_, _)
\* s without its trailing run of ch
TrimEnd(s, ch) ==
    IF s # <<>> /\ s[Len(s)] = ch THEN TrimEnd(SubSeq(s, 1, Len(s) - 1), ch) ELSE s

RECURSIVE CollapseSlashes(_)
\* .replace(/\/+/g, '/')
CollapseSlashes(s) ==
    IF Len(s) < 2 THEN s
    ELSE IF s[1] = "/" /\ s[2] = "/" THEN CollapseSlashes(Tail(s))
    ELSE <<s[1]>> \o CollapseSlashes(Tail(s))

\* path.trim().replace(/^\/+/, '').replace(/\/+$/, '').replace(/\/+/g, '/')
normalizePath(path) ==
    CollapseSlashes(TrimEnd(TrimStart(TrimEnd(TrimStart(path, " "), " "), "/"), "/"))

\* existing.map(d => [normalizePath(d.path), d]) (api.ts:345)
NormalizedPairs(docs) ==
    [i \in 1..Len(docs) |-> [key |-> normalizePath(docs[i].path), doc |-> docs[i]]]

\* existing.map(d => [d.path, d]) (server.ts:544, tools.ts:549)
LiteralPairs(docs) == [i \in 1..Len(docs) |-> [key |-> docs[i].path, doc |-> docs[i]]]

\* index of the last pair of pairs[1..i] with this key, 0 if none
RECURSIVE LastIndex(_, _, _)
LastIndex(pairs, key, i) ==
    IF i = 0 THEN 0
    ELSE IF pairs[i].key = key THEN i
    ELSE LastIndex(pairs, key, i - 1)

\* new Map(pairs): the entries in the order their keys were first set, each
\* with the value that was set last
RECURSIVE MapEntries(_, _)
MapEntries(pairs, i) ==
    IF i > Len(pairs) THEN <<>>
    ELSE IF \E j \in 1..(i - 1) : pairs[j].key = pairs[i].key
    THEN MapEntries(pairs, i + 1)
    ELSE <<pairs[LastIndex(pairs, pairs[i].key, Len(pairs))]>>
            \o MapEntries(pairs, i + 1)

MapHas(entries, key) == \E i \in 1..Len(entries) : entries[i].key = key

MapGet(entries, key) ==
    entries[CHOOSE i \in 1..Len(entries) : entries[i].key = key].doc

Change(path, content, status) == [path |-> path, content |-> content, status |-> status]

\* a first loop that reports a modification under the incoming spelling
RECURSIVE IncomingChanges_api_incomingPath(_, _)
IncomingChanges_api_incomingPath(incoming, existingMap) ==
    IF incoming = <<>> THEN <<>>
    ELSE LET prompt == Head(incoming)
             normalizedPath == normalizePath(prompt.path)
             rest == IncomingChanges_api_incomingPath(Tail(incoming), existingMap)
         IN IF ~MapHas(existingMap, normalizedPath)
            THEN <<Change(prompt.path, prompt.content, "added")>> \o rest
            ELSE IF MapGet(existingMap, normalizedPath).contentHash
                        # computeContentHash(prompt.content)
            THEN <<Change(prompt.path, prompt.content, "modified")>> \o rest
            ELSE rest

\* the first loop of computeDiff (api.ts:351-371)
RECURSIVE IncomingChanges_api(_, _)
IncomingChanges_api(incoming, existingMap) ==
    IF incoming = <<>> THEN <<>>
    ELSE LET prompt == Head(incoming)
             normalizedPath == normalizePath(prompt.path)
             rest == IncomingChanges_api(Tail(incoming), existingMap)
         IN IF ~MapHas(existingMap, normalizedPath)
            THEN <<Change(prompt.path, prompt.content, "added")>> \o rest
            ELSE IF MapGet(existingMap, normalizedPath).contentHash
                        # computeContentHash(prompt.content)
            THEN <<Change(MapGet(existingMap, normalizedPath).path,
                          prompt.content, "modified")>> \o rest
            ELSE rest

\* the second loop of computeDiff (api.ts:373-381)
RECURSIVE DeletedChanges(_, _)
DeletedChanges(existingMap, incomingPaths) ==
    IF existingMap = <<>> THEN <<>>
    ELSE IF Head(existingMap).key \notin incomingPaths
    THEN <<Change(Head(existingMap).doc.path, "", "deleted")>>
            \o DeletedChanges(Tail(existingMap), incomingPaths)
    ELSE DeletedChanges(Tail(existingMap), incomingPaths)

\* computeDiff of api.ts
computeDiff_api(incoming, existing) ==
    LET existingMap == MapEntries(NormalizedPairs(existing), 1)
        incomingPaths == {normalizePath(incoming[i].path) : i \in 1..Len(incoming)}
    IN IncomingChanges_api(incoming, existingMap)
            \o DeletedChanges(existingMap, incomingPaths)

\* the first loop of computeDiff (server.ts:549-567)
RECURSIVE IncomingChanges_server(_, _)
IncomingChanges_server(incoming, existingMap) ==
    IF incoming = <<>> THEN <<>>
    ELSE LET prompt == Head(incoming)
             rest == IncomingChanges_server(Tail(incoming), existingMap)
         IN IF ~MapHas(existingMap, prompt.path)
            THEN <<Change(prompt.path, prompt.content, "added")>> \o rest
            ELSE IF MapGet(existingMap, prompt.path).content # prompt.content
            THEN <<Change(prompt.path, prompt.content, "modified")>> \o rest
            ELSE rest

\* computeDiff of server.ts
computeDiff_server(incoming, existing) ==
    LET existingMap == MapEntries(LiteralPairs(existing), 1)
        incomingPaths == {incoming[i].path : i \in 1..Len(incoming)}
    IN IncomingChanges_server(incoming, existingMap)
            \o DeletedChanges(existingMap, incomingPaths)

\* ------------------------------------------------------------------ init
\* the prompt names and document paths of the handler and diff scenarios
NamePool ==
    {<<"a">>, <<"/", "a", "/">>, <<" ", "a">>, <<"a", "/", "b">>,
     <<"/", "a", "/", "/", "b", "/">>}

\* a path with an underscore in it
UnderscorePath == <<"a", "_", "b">>

LivePaths == {PathOf(i) : i \in 1..Len(Letters)} \cup NamePool \cup {UnderscorePath}

\* the order in which the remote lists the documents of a version
ListOrder ==
    <<<<"a">>, <<"/", "a", "/">>, <<" ", "a">>, <<"a", "/", "b">>,
      <<"/", "a", "/", "/", "b", "/">>>>
        \o [i \in 1..(Len(Letters) - 1) |-> PathOf(i + 1)]
        \o <<UnderscorePath>>

LiveFor(chs) ==
    [p \in LivePaths |->
        IF \E i \in 1..Len(chs) :
              chs[i].path = p /\ chs[i].status \in {"modified", "deleted"}
        THEN "old"
        ELSE IF \E i \in 1..Len(chs) : chs[i].path = p /\ chs[i].status = "unchanged"
        THEN "ok"
        ELSE NoDoc]

\* number of changes the remote's publish validation rejects
Poisoned(chs) == Cardinality({i \in 1..Len(chs) : RemoteRejects(chs[i].content)})

\* the state when deployToLive is called; the batches of the localization
\* scenario hold at most maxPoisoned documents that the remote rejects, and
\* the clock of the run is one of clocks
InitWith(maxPoisoned, clocks) ==
    /\ \/ /\ impl \in {"api", "server"}
          /\ \E n \in 0..MaxN :
                \E ks \in [1..n -> Kinds] :
                    changes = [i \in 1..n |-> MkChange(i, ks[i])]
          /\ versionName \in {NoName, "feat/x"}
       \/ /\ impl = "server"
          /\ \E n \in BatchSizes :
                \E ks \in [1..n -> BatchKinds] :
                    changes = [i \in 1..n |-> MkChange(i, ks[i])]
          /\ Poisoned(changes) <= maxPoisoned
          /\ versionName = NoName
       \/ /\ impl = "controller"
          /\ \E n \in 0..MaxN :
                \E ks \in [1..n -> PushChangesInputSchema] :
                    changes = [i \in 1..n |-> MkChange(i, ks[i])]
          /\ versionName = NoName
    /\ pc = "start"
    /\ calls = <<>>
    /\ draft = IF impl = "controller" THEN DeployUuid ELSE NoUuid
    /\ commit = NoUuid
    /\ publishError = NoError
    /\ failedDocs = <<>>
    /\ result = NoResult
    /\ frames = <<>>
    /\ mode = "none"
    /\ live = LiveFor(changes)
    /\ live0 = live
    /\ versions = IF impl = "controller"
                  THEN (DeployUuid :> [name |-> <<"draft">>, changes |-> <<>>,
                                       status |-> "draft"])
                  ELSE <<>>
    /\ faults = 0
    /\ tool = "none"
    /\ prompts = <<>>
    /\ existingDocs = <<>>
    /\ hpc = "none"
    /\ toolResult = NoToolResult
    /\ req = NoRequest
    /\ clock \in clocks
    /\ validation = NoValidation
    /\ cache = NoCache
    /\ files = NoFiles

Init == InitWith(1, {"coarse", "fine"})

\* every subset of a batch may be rejected by the remote; the two halves of
\* a batch start within the same millisecond
InitLocalize == InitWith(IndividualLimit + 1, {"coarse"})

\* ---------------------------------------------------------------- remote
\* POST /projects/{id}/versions: a new draft
RemoteCreate(u, nm) ==
    versions' = (u :> [name |-> nm, changes |-> <<>>, status |-> "draft"]) @@ versions

\* POST /projects/{id}/versions/{uuid}/push: the changes are stored in the draft
RemotePush(u, chs) ==
    versions' = [versions EXCEPT ![u].changes = @ \o chs]

RECURSIVE Apply(_, _)
\* the document set lv after the changes chs, applied in order
Apply(lv, chs) ==
    IF chs = <<>> THEN lv
    ELSE Apply([lv EXCEPT ![Head(chs).path] =
                    IF Head(chs).status = "deleted" THEN NoDoc ELSE Head(chs).content],
               Tail(chs))

\* the remote's publish validation of what was pushed to the version
PublishAccepted(u) ==
    \A i \in 1..Len(versions[u].changes) :
        ~RemoteRejects(versions[u].changes[i].content)

\* POST /projects/{id}/versions/{uuid}/publish, accepted: the version's
\* documents become the live ones
RemotePublish(u) ==
    /\ live' = Apply(live, versions[u].changes)
    /\ versions' = [versions EXCEPT ![u].status = "merged"]

\* Transient faults of one run. A batch of the localization scenario that
\* holds a rejected document is probed by a remote that rejects exactly the
\* drafts holding a rejected document.
FaultBudget ==
    IF Len(changes) >= IndividualLimit - 1 /\ Poisoned(changes) > 0
    THEN 0
    ELSE MaxFaults

\* the remote fails a request for a reason that is not document-specific
Fault == faults < FaultBudget /\ faults' = faults + 1

\* the error a failed request raises (request(), normalized LatitudeApiError)
RemoteError(op) ==
    [code |-> "HTTP_422", status |-> 422, origin |-> op, failedPaths |-> <<>>]

TransientError(op) ==
    [code |-> "HTTP_500", status |-> 500, origin |-> op, failedPaths |-> <<>>]

\* a request of deployToLive and the error the remote answered it with
Call(op, u, body, err) == [op |-> op, version |-> u, body |-> body, err |-> err]

\* -------------------------------------------------------------- results
createNoOpVersion == [id |-> 0, uuid |-> LiveRef, status |-> "live"]

\* a result whose added list names every change
Returned_allAdded(version, processed, chs) ==
    [kind |-> "result", version |-> version, documentsProcessed |-> processed,
     added |-> PathsOf(chs),
     modified |-> PathsOf(SelectSeq(chs, IsModified)),
     deleted |-> PathsOf(SelectSeq(chs, IsDeleted)),
     err |-> NoError]

Returned(version, processed, chs) ==
    [kind |-> "result", version |-> version, documentsProcessed |-> processed,
     added |-> PathsOf(SelectSeq(chs, IsAdded)),
     modified |-> PathsOf(SelectSeq(chs, IsModified)),
     deleted |-> PathsOf(SelectSeq(chs, IsDeleted)),
     err |-> NoError]

Raised(e) == [NoResult EXCEPT !.kind = "error", !.err = e]

\* an enriched error that names every document of the batch
DocumentValidationError_wholeBatch(failed) ==
    [code |-> "DOCUMENT_VALIDATION_FAILED", status |-> 422, origin |-> "localization",
     failedPaths |-> PathsOf(nonDeleteChanges)]

\* the enriched error of deployToLive (server.ts:1016-1030)
DocumentValidationError(failed) ==
    [code |-> "DOCUMENT_VALIDATION_FAILED", status |-> 422, origin |-> "localization",
     failedPaths |-> PathsOf(failed)]

\* a catch block that raises the enriched error whatever localization found
Thrown_alwaysEnriched(failed, original) == Raised(DocumentValidationError(failed))

\* the catch block of deployToLive once localization has returned `failed`
Thrown(failed, original) ==
    IF Len(failed) > 0 THEN Raised(DocumentValidationError(failed)) ELSE Raised(original)

\* a deploy that takes only the empty list for a no-op
deployToLive_api_start_emptyOnly ==
    /\ impl = "api"
    /\ pc = "start"
    /\ IF Len(changes) = 0
       THEN /\ result' = Returned(createNoOpVersion, 0, <<>>)
            /\ pc' = "done"
       ELSE /\ pc' = "create"
            /\ UNCHANGED result
    /\ UNCHANGED toolVars
    /\ UNCHANGED <<impl, changes, versionName, commit, calls, draft, publishError,
                   failedDocs, frames, mode, live, live0, versions, faults>>

\* ------------------------------------------------- deployToLive, api.ts
deployToLive_api_start ==
    /\ impl = "api"
    /\ pc = "start"
    /\ IF Len(changes) = 0 \/ Len(actualChanges) = 0
       THEN /\ result' = Returned(createNoOpVersion, 0, <<>>)
            /\ pc' = "done"
       ELSE /\ pc' = "create"
            /\ UNCHANGED result
    /\ UNCHANGED toolVars
    /\ UNCHANGED <<impl, changes, versionName, commit, calls, draft, publishError,
                   failedDocs, frames, mode, live, live0, versions, faults>>

\* createDraftVersion: const versionName = name || `mcp-draft-${timestamp}`
DraftName(name) == IF name # NoName THEN <<name>> ELSE <<"mcp-draft">>

\* const draft = await createDraftVersion(_versionName)
deployToLive_api_create ==
    /\ impl = "api"
    /\ pc = "create"
    /\ \/ /\ RemoteCreate(DeployUuid, DraftName(versionName))
          /\ calls' = Append(calls, Call("create", NoUuid, <<>>, NoError))
          /\ draft' = DeployUuid
          /\ pc' = "push"
          /\ UNCHANGED <<result, faults>>
       \/ /\ Fault
          /\ calls' = Append(calls, Call("create", NoUuid, <<>>, TransientError("create")))
          /\ result' = Raised(TransientError("create"))
          /\ pc' = "done"
          /\ UNCHANGED <<draft, versions>>
    /\ UNCHANGED toolVars
    /\ UNCHANGED <<impl, changes, versionName, commit, publishError, failedDocs,
                   frames, mode, live, live0>>

\* a deploy that pushes to the live version itself
deployToLive_api_push_live ==
    /\ impl = "api"
    /\ pc = "push"
    /\ \/ /\ live' = Apply(live, actualChanges)
          /\ calls' = Append(calls, Call("push", LiveRef, actualChanges, NoError))
          /\ commit' = draft
          /\ pc' = "publish"
          /\ UNCHANGED <<result, faults, versions>>
       \/ /\ Fault
          /\ calls' = Append(calls, Call("push", LiveRef, actualChanges, TransientError("push")))
          /\ result' = Raised(TransientError("push"))
          /\ pc' = "done"
          /\ UNCHANGED <<commit, versions, live>>
    /\ UNCHANGED toolVars
    /\ UNCHANGED <<impl, changes, versionName, draft, publishError, failedDocs,
                   frames, mode, live0>>

\* a deploy whose push carries the first change only
deployToLive_api_push_firstOnly ==
    /\ impl = "api"
    /\ pc = "push"
    /\ \/ /\ RemotePush(draft, <<Head(actualChanges)>>)
          /\ calls' = Append(calls, Call("push", draft, <<Head(actualChanges)>>, NoError))
          /\ commit' = draft
          /\ pc' = "publish"
          /\ UNCHANGED <<result, faults>>
       \/ /\ Fault
          /\ calls' = Append(calls, Call("push", draft, actualChanges, TransientError("push")))
          /\ result' = Raised(TransientError("push"))
          /\ pc' = "done"
          /\ UNCHANGED <<commit, versions>>
    /\ UNCHANGED toolVars
    /\ UNCHANGED <<impl, changes, versionName, draft, publishError, failedDocs,
                   frames, mode, live, live0>>

\* const pushResult = await pushToVersion(draft.uuid, actualChanges)
deployToLive_api_push ==
    /\ impl = "api"
    /\ pc = "push"
    /\ \/ /\ RemotePush(draft, actualChanges)
          /\ calls' = Append(calls, Call("push", draft, actualChanges, NoError))
          /\ commit' = draft
          /\ pc' = "publish"
          /\ UNCHANGED <<result, faults>>
       \/ /\ Fault
          /\ calls' = Append(calls, Call("push", draft, actualChanges, TransientError("push")))
          /\ result' = Raised(TransientError("push"))
          /\ pc' = "done"
          /\ UNCHANGED <<commit, versions>>
    /\ UNCHANGED toolVars
    /\ UNCHANGED <<impl, changes, versionName, draft, publishError, failedDocs,
                   frames, mode, live, live0>>

\* const publishResult = await publishVersion(pushResult.commitUuid); the
\* catch block re-throws whatever was raised
deployToLive_api_publish ==
    /\ impl = "api"
    /\ pc = "publish"
    /\ \/ /\ PublishAccepted(commit)
          /\ calls' = Append(calls, Call("publish", commit, <<>>, NoError))
          /\ RemotePublish(commit)
          /\ result' = Returned([id |-> 1, uuid |-> commit, status |-> "merged"],
                                Len(versions[commit].changes), actualChanges)
          /\ UNCHANGED faults
       \/ /\ ~PublishAccepted(commit)
          /\ calls' = Append(calls, Call("publish", commit, <<>>, RemoteError("publish")))
          /\ result' = Raised(RemoteError("publish"))
          /\ UNCHANGED <<live, versions, faults>>
       \/ /\ Fault
          /\ calls' = Append(calls, Call("publish", commit, <<>>, TransientError("publish")))
          /\ result' = Raised(TransientError("publish"))
          /\ UNCHANGED <<live, versions>>
    /\ pc' = "done"
    /\ UNCHANGED toolVars
    /\ UNCHANGED <<impl, changes, versionName, draft, commit, publishError,
                   failedDocs, frames, mode, live0>>

\* --------------------------------------------- deployToLive, server.ts
deployToLive_server_start ==
    /\ impl = "server"
    /\ pc = "start"
    /\ IF Len(changes) = 0 \/ Len(actualChanges) = 0
       THEN /\ result' = Returned(createNoOpVersion, 0, <<>>)
            /\ pc' = "done"
       ELSE /\ pc' = "create"
            /\ UNCHANGED result
    /\ UNCHANGED toolVars
    /\ UNCHANGED <<impl, changes, versionName, commit, calls, draft, publishError, failedDocs, frames,
                   mode, live, live0, versions, faults>>

\* const draft = await createVersion(draftName)
deployToLive_server_create ==
    /\ impl = "server"
    /\ pc = "create"
    /\ \/ /\ RemoteCreate(DeployUuid, <<"MCP deploy">>)
          /\ calls' = Append(calls, Call("create", NoUuid, <<>>, NoError))
          /\ draft' = DeployUuid
          /\ pc' = "push"
          /\ UNCHANGED <<result, faults>>
       \/ /\ Fault
          /\ calls' = Append(calls, Call("create", NoUuid, <<>>, TransientError("create")))
          /\ result' = Raised(TransientError("create"))
          /\ pc' = "done"
          /\ UNCHANGED <<draft, versions>>
    /\ UNCHANGED toolVars
    /\ UNCHANGED <<impl, changes, versionName, commit, publishError, failedDocs, frames, mode, live, live0>>

\* a deploy that sends a failed push into the catch block of the publish
deployToLive_server_push_localizes ==
    /\ impl = "server"
    /\ pc = "push"
    /\ \/ /\ RemotePush(draft, actualChanges)
          /\ calls' = Append(calls, Call("push", draft, actualChanges, NoError))
          /\ pc' = "publish"
          /\ UNCHANGED <<publishError, faults>>
       \/ /\ Fault
          /\ calls' = Append(calls, Call("push", draft, actualChanges, TransientError("push")))
          /\ publishError' = TransientError("push")
          /\ pc' = "localize"
          /\ UNCHANGED versions
    /\ UNCHANGED toolVars
    /\ UNCHANGED <<impl, changes, versionName, commit, draft, result, failedDocs, frames,
                   mode, live, live0>>

\* const pushResult = await pushChanges(draft.uuid, actualChanges)
deployToLive_server_push ==
    /\ impl = "server"
    /\ pc = "push"
    /\ \/ /\ RemotePush(draft, actualChanges)
          /\ calls' = Append(calls, Call("push", draft, actualChanges, NoError))
          /\ pc' = "publish"
          /\ UNCHANGED <<result, faults>>
       \/ /\ Fault
          /\ calls' = Append(calls, Call("push", draft, actualChanges, TransientError("push")))
          /\ result' = Raised(TransientError("push"))
          /\ pc' = "done"
          /\ UNCHANGED versions
    /\ UNCHANGED toolVars
    /\ UNCHANGED <<impl, changes, versionName, commit, draft, publishError, failedDocs, frames, mode,
                   live, live0>>

\* const published = await publishVersion(draft.uuid, draftName), and the
\* return of the try block or the entry of the catch block
deployToLive_server_publish ==
    /\ impl = "server"
    /\ pc = "publish"
    /\ \/ /\ PublishAccepted(draft)
          /\ calls' = Append(calls, Call("publish", draft, <<>>, NoError))
          /\ RemotePublish(draft)
          /\ result' = Returned([id |-> 1, uuid |-> draft, status |-> "merged"],
                                Len(versions[draft].changes), actualChanges)
          /\ pc' = "done"
          /\ UNCHANGED <<publishError, faults>>
       \/ /\ ~PublishAccepted(draft)
          /\ calls' = Append(calls, Call("publish", draft, <<>>, RemoteError("publish")))
          /\ publishError' = RemoteError("publish")
          /\ pc' = "localize"
          /\ UNCHANGED <<result, live, versions, faults>>
       \/ /\ Fault
          /\ calls' = Append(calls, Call("publish", draft, <<>>, TransientError("publish")))
          /\ publishError' = TransientError("publish")
          /\ pc' = "localize"
          /\ UNCHANGED <<result, live, versions>>
    /\ UNCHANGED toolVars
    /\ UNCHANGED <<impl, changes, versionName, commit, draft, failedDocs, frames, mode, live0>>

\* --------------------------------------------- localization, server.ts
Size(iv) == iv[2] - iv[1] + 1

\* a call of testSingleDocument or binarySearchFailures that has just begun;
\* first is the half whose promise settled first, once one has
\* stamp is the reading of Date.now() its probe will be named with, uuid the
\* draft createVersion returned, target the version its push was sent to
NewFrame(stamp) ==
    [pc |-> "create", uuid |-> NoUuid, target |-> NoUuid, res |-> <<>>,
     first |-> "none", stamp |-> stamp]

\* Date.now() in a call that follows an awaited response of the probe before
\* it, or begins the localization: a reading no other probe gets (i is the
\* document the probe begins with, 0 for the whole batch)
Reading(i) == <<i, i, 0>>

\* Date.now() in the two calls that Promise.all([...]) starts one after the
\* other without an await between them: the same millisecond, or the next
ReadingLeft(iv) == <<iv[1], iv[2], 0>>

ReadingRight(iv, advanced) == <<iv[1], iv[2], IF advanced THEN 1 ELSE 0>>

\* change.path.slice(0, 20)
Slice20(path) == SubSeq(path, 1, IF Len(path) < 20 THEN Len(path) ELSE 20)

FailedDocument(path, code) == [path |-> path, code |-> code]

\* the local pass of identifyFailingDocuments over nonDeleteChanges
RECURSIVE LocalFailures(_)
LocalFailures(nd) ==
    IF nd = <<>> THEN <<>>
    ELSE IF Head(nd).content = "" THEN LocalFailures(Tail(nd))
    ELSE IF LocallyBad(Head(nd).content)
         THEN <<FailedDocument(Head(nd).path, "local-error")>> \o LocalFailures(Tail(nd))
         ELSE LocalFailures(Tail(nd))

\* a localization that probes the remote whatever the local pass found
identifyFailingDocuments_probesAnyway ==
    /\ pc = "localize"
    /\ LET nd == nonDeleteChanges
       IN IF Len(nd) = 0
          THEN /\ failedDocs' = <<>>
               /\ result' = Thrown(<<>>, publishError)
               /\ pc' = "done"
               /\ UNCHANGED <<frames, mode>>
          ELSE /\ pc' = "probing"
               /\ IF Len(nd) <= IndividualLimit
                  THEN /\ mode' = "individual"
                       /\ frames' = (<<1, 1>> :> NewFrame(Reading(1)))
                  ELSE /\ mode' = "binary"
                       /\ frames' = (<<1, Len(nd)>> :> NewFrame(Reading(0)))
               /\ UNCHANGED <<failedDocs, result>>
    /\ UNCHANGED toolVars
    /\ UNCHANGED <<impl, changes, versionName, commit, calls, draft, publishError, live, live0,
                   versions, faults>>

\* a localization that probes one by one below the limit only
identifyFailingDocuments_belowLimit ==
    /\ pc = "localize"
    /\ LET nd == nonDeleteChanges
           failed == LocalFailures(nd)
       IN IF Len(nd) = 0 \/ Len(failed) > 0
          THEN /\ failedDocs' = failed
               /\ result' = Thrown(failed, publishError)
               /\ pc' = "done"
               /\ UNCHANGED <<frames, mode>>
          ELSE /\ pc' = "probing"
               /\ IF Len(nd) < IndividualLimit
                  THEN /\ mode' = "individual"
                       /\ frames' = (<<1, 1>> :> NewFrame(Reading(1)))
                  ELSE /\ mode' = "binary"
                       /\ frames' = (<<1, Len(nd)>> :> NewFrame(Reading(0)))
               /\ UNCHANGED <<failedDocs, result>>
    /\ UNCHANGED toolVars
    /\ UNCHANGED <<impl, changes, versionName, commit, calls, draft, publishError, live, live0,
                   versions, faults>>

\* identifyFailingDocuments up to its first remote request
identifyFailingDocuments ==
    /\ pc = "localize"
    /\ LET nd == nonDeleteChanges
           failed == LocalFailures(nd)
       IN IF Len(nd) = 0 \/ Len(failed) > 0
          THEN /\ failedDocs' = failed
               /\ result' = Thrown(failed, publishError)
               /\ pc' = "done"
               /\ UNCHANGED <<frames, mode>>
          ELSE /\ pc' = "probing"
               /\ IF Len(nd) <= IndividualLimit
                  THEN /\ mode' = "individual"
                       /\ frames' = (<<1, 1>> :> NewFrame(Reading(1)))
                  ELSE /\ mode' = "binary"
                       /\ frames' = (<<1, Len(nd)>> :> NewFrame(Reading(0)))
               /\ UNCHANGED <<failedDocs, result>>
    /\ UNCHANGED toolVars
    /\ UNCHANGED <<impl, changes, versionName, commit, calls, draft, publishError, live, live0,
                   versions, faults>>

\* the loop of testDocumentsIndividually: the next document, once the probe
\* of the previous one has returned
testDocumentsIndividually ==
    /\ pc = "probing"
    /\ mode = "individual"
    /\ \E i \in 1..(Len(nonDeleteChanges) - 1) :
        /\ <<i, i>> \in DOMAIN frames
        /\ frames[<<i, i>>].pc = "done"
        /\ <<i + 1, i + 1>> \notin DOMAIN frames
        /\ frames' = (<<i + 1, i + 1>> :> NewFrame(Reading(i + 1))) @@ frames
    /\ UNCHANGED toolVars
    /\ UNCHANGED <<impl, changes, versionName, commit, pc, calls, draft, publishError, failedDocs,
                   result, mode, live, live0, versions, faults>>

\* a middle that peels off one document
Mid_one(iv) == 1

\* const mid = Math.floor(changes.length / 2)
Mid(iv) == Size(iv) \div 2

Left(iv) == <<iv[1], iv[1] + Mid(iv) - 1>>

\* a right half that is the batch itself: changes.slice(0)
Right_whole(iv) == iv

\* const right = changes.slice(mid)
Right(iv) == <<iv[1] + Mid(iv), iv[2]>>

\* the call for iv returns res: its promise settles, and Promise.all of the
\* caller notes it
FrameDone(iv, res) ==
    [p \in DOMAIN frames |->
        IF p = iv THEN [frames[p] EXCEPT !.pc = "done", !.res = res]
        ELSE IF /\ frames[p].pc = "wait"
                /\ frames[p].first = "none"
                /\ iv \in {Left(p), Right(p)}
        THEN [frames[p] EXCEPT !.first = IF iv = Left(p) THEN "left" ELSE "right"]
        ELSE frames[p]]

SingleFailure(iv) ==
    <<FailedDocument(nonDeleteChanges[iv[1]].path, "api-validation-error")>>

\* testSingleDocument: createVersion(`val-...`)
testSingleDocument_create(iv) ==
    /\ pc = "probing"
    /\ Size(iv) = 1
    /\ frames[iv].pc = "create"
    /\ \/ /\ RemoteCreate(iv, <<"val", frames[iv].stamp,
                                Slice20(nonDeleteChanges[iv[1]].path)>>)
          /\ frames' = [frames EXCEPT ![iv].pc = "push", ![iv].uuid = iv]
          /\ UNCHANGED faults
       \/ /\ Fault
          /\ frames' = FrameDone(iv, SingleFailure(iv))
          /\ UNCHANGED versions
    /\ UNCHANGED toolVars
    /\ UNCHANGED <<impl, changes, versionName, commit, pc, calls, draft, publishError, failedDocs,
                   result, mode, live, live0>>

\* testSingleDocument: pushChanges(testDraft.uuid, [change])
testSingleDocument_push(iv) ==
    /\ pc = "probing"
    /\ Size(iv) = 1
    /\ frames[iv].pc = "push"
    /\ \/ /\ RemotePush(frames[iv].uuid, <<nonDeleteChanges[iv[1]]>>)
          /\ frames' = [frames EXCEPT ![iv].pc = "publish",
                                      ![iv].target = frames[iv].uuid]
          /\ UNCHANGED faults
       \/ /\ Fault
          /\ frames' = [FrameDone(iv, SingleFailure(iv))
                            EXCEPT ![iv].target = frames[iv].uuid]
          /\ UNCHANGED versions
    /\ UNCHANGED toolVars
    /\ UNCHANGED <<impl, changes, versionName, commit, pc, calls, draft, publishError, failedDocs,
                   result, mode, live, live0>>

\* testSingleDocument: publishVersion(testDraft.uuid), then return null or
\* the catch block
testSingleDocument_publish(iv) ==
    /\ pc = "probing"
    /\ Size(iv) = 1
    /\ frames[iv].pc = "publish"
    /\ \/ /\ PublishAccepted(frames[iv].uuid)
          /\ RemotePublish(frames[iv].uuid)
          /\ frames' = FrameDone(iv, <<>>)
          /\ UNCHANGED faults
       \/ /\ ~PublishAccepted(frames[iv].uuid)
          /\ frames' = FrameDone(iv, SingleFailure(iv))
          /\ UNCHANGED <<live, versions, faults>>
       \/ /\ Fault
          /\ frames' = FrameDone(iv, SingleFailure(iv))
          /\ UNCHANGED <<live, versions>>
    /\ UNCHANGED toolVars
    /\ UNCHANGED <<impl, changes, versionName, commit, pc, calls, draft, publishError, failedDocs,
                   result, mode, live0>>

\* changes.slice(lo - 1, hi) of the batch under localization
Batch(iv) == SubSeq(nonDeleteChanges, iv[1], iv[2])

\* binarySearchFailures after testBatch returned false: both halves start
Split(iv) ==
    (Left(iv) :> NewFrame(ReadingLeft(iv)))
        @@ (Right(iv) :> NewFrame(ReadingRight(iv, clock = "fine")))
        @@ [frames EXCEPT ![iv].pc = "wait"]

\* testBatch: createVersion(`batch-val-...`)
testBatch_create(iv) ==
    /\ pc = "probing"
    /\ Size(iv) > 1
    /\ frames[iv].pc = "create"
    /\ \/ /\ RemoteCreate(iv, <<"batch-val", frames[iv].stamp>>)
          /\ frames' = [frames EXCEPT ![iv].pc = "push", ![iv].uuid = iv]
          /\ UNCHANGED faults
       \/ /\ Fault
          /\ frames' = Split(iv)
          /\ UNCHANGED versions
    /\ UNCHANGED toolVars
    /\ UNCHANGED <<impl, changes, versionName, commit, pc, calls, draft, publishError, failedDocs,
                   result, mode, live, live0>>

\* testBatch: pushChanges(testDraft.uuid, changes)
testBatch_push(iv) ==
    /\ pc = "probing"
    /\ Size(iv) > 1
    /\ frames[iv].pc = "push"
    /\ \/ /\ RemotePush(frames[iv].uuid, Batch(iv))
          /\ frames' = [frames EXCEPT ![iv].pc = "publish",
                                      ![iv].target = frames[iv].uuid]
          /\ UNCHANGED faults
       \/ /\ Fault
          /\ frames' = [Split(iv) EXCEPT ![iv].target = frames[iv].uuid]
          /\ UNCHANGED versions
    /\ UNCHANGED toolVars
    /\ UNCHANGED <<impl, changes, versionName, commit, pc, calls, draft, publishError, failedDocs,
                   result, mode, live, live0>>

\* testBatch: publishVersion(testDraft.uuid); true ends binarySearchFailures
\* with [], false splits the batch
testBatch_publish(iv) ==
    /\ pc = "probing"
    /\ Size(iv) > 1
    /\ frames[iv].pc = "publish"
    /\ \/ /\ PublishAccepted(frames[iv].uuid)
          /\ RemotePublish(frames[iv].uuid)
          /\ frames' = FrameDone(iv, <<>>)
          /\ UNCHANGED faults
       \/ /\ ~PublishAccepted(frames[iv].uuid)
          /\ frames' = Split(iv)
          /\ UNCHANGED <<live, versions, faults>>
       \/ /\ Fault
          /\ frames' = Split(iv)
          /\ UNCHANGED <<live, versions>>
    /\ UNCHANGED toolVars
    /\ UNCHANGED <<impl, changes, versionName, commit, pc, calls, draft, publishError, failedDocs,
                   result, mode, live0>>

\* a join that keeps the failures of the left half only
binarySearchFailures_join_leftOnly(iv) ==
    /\ pc = "probing"
    /\ frames[iv].pc = "wait"
    /\ frames[Left(iv)].pc = "done"
    /\ frames[Right(iv)].pc = "done"
    /\ frames' = FrameDone(iv, frames[Left(iv)].res)
    /\ UNCHANGED toolVars
    /\ UNCHANGED <<impl, changes, versionName, commit, pc, calls, draft, publishError,
                   failedDocs, result, mode, live, live0, versions, faults>>

\* a join that collects the failures in the order the halves settle
binarySearchFailures_join_arrival(iv) ==
    /\ pc = "probing"
    /\ frames[iv].pc = "wait"
    /\ frames[Left(iv)].pc = "done"
    /\ frames[Right(iv)].pc = "done"
    /\ frames' = FrameDone(iv, IF frames[iv].first = "right"
                               THEN frames[Right(iv)].res \o frames[Left(iv)].res
                               ELSE frames[Left(iv)].res \o frames[Right(iv)].res)
    /\ UNCHANGED toolVars
    /\ UNCHANGED <<impl, changes, versionName, commit, pc, calls, draft, publishError,
                   failedDocs, result, mode, live, live0, versions, faults>>

\* binarySearchFailures: Promise.all of the two halves has resolved
binarySearchFailures_join(iv) ==
    /\ pc = "probing"
    /\ frames[iv].pc = "wait"
    /\ frames[Left(iv)].pc = "done"
    /\ frames[Right(iv)].pc = "done"
    /\ frames' = FrameDone(iv, frames[Left(iv)].res \o frames[Right(iv)].res)
    /\ UNCHANGED toolVars
    /\ UNCHANGED <<impl, changes, versionName, commit, pc, calls, draft, publishError, failedDocs,
                   result, mode, live, live0, versions, faults>>

RECURSIVE IndividualResults(_)
\* the failures testDocumentsIndividually has collected from documents 1..i
IndividualResults(i) ==
    IF i = 0 THEN <<>> ELSE IndividualResults(i - 1) \o frames[<<i, i>>].res

LocalizationDone ==
    IF mode = "individual"
    THEN /\ <<Len(nonDeleteChanges), Len(nonDeleteChanges)>> \in DOMAIN frames
         /\ frames[<<Len(nonDeleteChanges), Len(nonDeleteChanges)>>].pc = "done"
    ELSE frames[<<1, Len(nonDeleteChanges)>>].pc = "done"

LocalizationResult ==
    IF mode = "individual"
    THEN IndividualResults(Len(nonDeleteChanges))
    ELSE frames[<<1, Len(nonDeleteChanges)>>].res

\* identifyFailingDocuments returns and the catch block of deployToLive
\* raises the enriched error or re-throws publishError
deployToLive_server_catch ==
    /\ pc = "probing"
    /\ LocalizationDone
    /\ failedDocs' = LocalizationResult
    /\ result' = Thrown(LocalizationResult, publishError)
    /\ pc' = "done"
    /\ UNCHANGED toolVars
    /\ UNCHANGED <<impl, changes, versionName, commit, calls, draft, publishError, frames, mode,
                   live, live0, versions, faults>>

\* ------------------------------------- pushChanges, latitude.controller.ts
\* latitudeService.pushChanges(projectId, versionUuid, {changes: args.changes})
pushChanges_controller ==
    /\ impl = "controller"
    /\ pc = "start"
    /\ \/ /\ RemotePush(draft, changes)
          /\ calls' = Append(calls, Call("push", draft, changes, NoError))
          /\ result' = [NoResult EXCEPT !.kind = "result",
                                        !.documentsProcessed = Len(changes)]
          /\ UNCHANGED faults
       \/ /\ Fault
          /\ calls' = Append(calls, Call("push", draft, changes, TransientError("push")))
          /\ result' = Raised(TransientError("push"))
          /\ UNCHANGED versions
    /\ pc' = "done"
    /\ UNCHANGED toolVars
    /\ UNCHANGED <<impl, changes, versionName, commit, draft, publishError,
                   failedDocs, frames, mode, live, live0>>

Next ==
    \/ pushChanges_controller
    \/ deployToLive_api_start
    \/ deployToLive_api_create
    \/ deployToLive_api_push
    \/ deployToLive_api_publish
    \/ deployToLive_server_start
    \/ deployToLive_server_create
    \/ deployToLive_server_push
    \/ deployToLive_server_publish
    \/ identifyFailingDocuments
    \/ testDocumentsIndividually
    \/ \E iv \in DOMAIN frames : testSingleDocument_create(iv)
    \/ \E iv \in DOMAIN frames : testSingleDocument_push(iv)
    \/ \E iv \in DOMAIN frames : testSingleDocument_publish(iv)
    \/ \E iv \in DOMAIN frames : testBatch_create(iv)
    \/ \E iv \in DOMAIN frames : testBatch_push(iv)
    \/ \E iv \in DOMAIN frames : testBatch_publish(iv)
    \/ \E iv \in DOMAIN frames : binarySearchFailures_join(iv)
    \/ deployToLive_server_catch

Spec == Init /\ [][Next]_vars

SpecLocalize == InitLocalize /\ [][Next]_vars

\* ------------------------------------- one rejected document among many
\* deployToLive of server.ts is called with n added documents of which the
\* remote rejects the k-th alone
InitSparse ==
    /\ impl = "server"
    /\ \E n \in (IndividualLimit + 1)..MaxSparse, k \in 1..MaxSparse :
        /\ k <= n
        /\ changes = [i \in 1..n |->
                        MkChange(i, <<"added", IF i = k THEN "srv" ELSE "ok">>)]
    /\ versionName = NoName
    /\ clock = "coarse"
    /\ validation = NoValidation
    /\ cache = NoCache
    /\ files = NoFiles
    /\ pc = "start"
    /\ calls = <<>>
    /\ draft = NoUuid
    /\ commit = NoUuid
    /\ publishError = NoError
    /\ failedDocs = <<>>
    /\ result = NoResult
    /\ frames = <<>>
    /\ mode = "none"
    /\ live = LiveFor(changes)
    /\ live0 = live
    /\ versions = <<>>
    /\ faults = 0
    /\ tool = "none"
    /\ prompts = <<>>
    /\ existingDocs = <<>>
    /\ hpc = "none"
    /\ toolResult = NoToolResult
    /\ req = NoRequest

NextSparse ==
    \/ deployToLive_server_start
    \/ deployToLive_server_create
    \/ deployToLive_server_push
    \/ deployToLive_server_publish
    \/ identifyFailingDocuments
    \/ \E iv \in DOMAIN frames : testSingleDocument_create(iv)
    \/ \E iv \in DOMAIN frames : testSingleDocument_push(iv)
    \/ \E iv \in DOMAIN frames : testSingleDocument_publish(iv)
    \/ \E iv \in DOMAIN frames : testBatch_create(iv)
    \/ \E iv \in DOMAIN frames : testBatch_push(iv)
    \/ \E iv \in DOMAIN frames : testBatch_publish(iv)
    \/ \E iv \in DOMAIN frames : binarySearchFailures_join(iv)
    \/ deployToLive_server_catch

SpecSparse == InitSparse /\ [][NextSparse]_vars

\* --------------------------------------------- localization to its end
\* deployToLive of server.ts on the batches of the small and of the
\* localization scenario
InitTerminate ==
    /\ InitWith(1, {"coarse"})
    /\ impl = "server"
    /\ versionName = NoName

NextTerminate ==
    \/ deployToLive_server_start
    \/ deployToLive_server_create
    \/ deployToLive_server_push
    \/ deployToLive_server_publish
    \/ identifyFailingDocuments
    \/ testDocumentsIndividually
    \/ \E iv \in DOMAIN frames : testSingleDocument_create(iv)
    \/ \E iv \in DOMAIN frames : testSingleDocument_push(iv)
    \/ \E iv \in DOMAIN frames : testSingleDocument_publish(iv)
    \/ \E iv \in DOMAIN frames : testBatch_create(iv)
    \/ \E iv \in DOMAIN frames : testBatch_push(iv)
    \/ \E iv \in DOMAIN frames : testBatch_publish(iv)
    \/ \E iv \in DOMAIN frames : binarySearchFailures_join(iv)
    \/ deployToLive_server_catch

\* Every awaited remote call returns or fails in the end, and the event loop
\* then runs the continuation: a step that can be taken is taken.
SpecTerminate == InitTerminate /\ [][NextTerminate]_vars /\ WF_vars(NextTerminate)

\* ------------------------------------------------ computeDiff on its own
Prompt(name, content) == [name |-> name, content |-> content]

\* prompts.map(p => ({ path: p.name, content: p.content }))
Incoming(ps) == [i \in 1..Len(ps) |-> [path |-> ps[i].name, content |-> ps[i].content]]

Document(path, content, hashed) ==
    [path |-> path, content |-> content,
     contentHash |-> IF hashed THEN computeContentHash(content) ELSE NoHash]

DiffContents == {"x", "y"}

\* lists of 0..n elements of S
SeqsUpTo(S, n) == UNION {[1..k -> S] : k \in 0..n}

\* a version holds one document per normalized path
DistinctPaths(docs) ==
    \A i, j \in 1..Len(docs) :
        normalizePath(docs[i].path) = normalizePath(docs[j].path) => i = j

\* the document lists a version can hold, all with or all without contentHash
ExistingLists ==
    UNION {{docs \in SeqsUpTo({Document(n, "x", hashed) : n \in NamePool}, MaxExisting) :
                DistinctPaths(docs)} : hashed \in BOOLEAN}

\* the incoming lists of a diff
IncomingLists == SeqsUpTo({Prompt(n, c) : n \in NamePool, c \in DiffContents}, MaxIncoming)

InitDiff ==
    /\ tool = "diff"
    /\ impl \in {"api", "server"}
    /\ prompts \in IncomingLists
    /\ existingDocs \in ExistingLists
    /\ hpc = "start"
    /\ changes = <<>>
    /\ versionName = NoName
    /\ pc = "idle"
    /\ calls = <<>>
    /\ draft = NoUuid
    /\ commit = NoUuid
    /\ publishError = NoError
    /\ failedDocs = <<>>
    /\ result = NoResult
    /\ frames = <<>>
    /\ mode = "none"
    /\ live = [p \in LivePaths |-> NoDoc]
    /\ live0 = live
    /\ versions = <<>>
    /\ faults = 0
    /\ toolResult = NoToolResult
    /\ req = NoRequest
    /\ clock = "coarse"
    /\ validation = NoValidation
    /\ cache = NoCache
    /\ files = NoFiles

computeDiff_api_call ==
    /\ tool = "diff"
    /\ impl = "api"
    /\ hpc = "start"
    /\ changes' = computeDiff_api(Incoming(prompts), existingDocs)
    /\ hpc' = "done"
    /\ UNCHANGED <<impl, versionName, pc, calls, draft, commit, publishError,
                   failedDocs, result, frames, mode, live, live0, versions, faults,
                   tool, prompts, existingDocs, toolResult>>
    /\ UNCHANGED <<req, clock, validation, cache, files>>

computeDiff_server_call ==
    /\ tool = "diff"
    /\ impl = "server"
    /\ hpc = "start"
    /\ changes' = computeDiff_server(Incoming(prompts), existingDocs)
    /\ hpc' = "done"
    /\ UNCHANGED <<impl, versionName, pc, calls, draft, commit, publishError,
                   failedDocs, result, frames, mode, live, live0, versions, faults,
                   tool, prompts, existingDocs, toolResult>>
    /\ UNCHANGED <<req, clock, validation, cache, files>>

NextDiff == computeDiff_api_call \/ computeDiff_server_call

SpecDiff == InitDiff /\ [][NextDiff]_vars

\* a validation that stops at the first invalid prompt
RECURSIVE ValidationErrors_shortCircuit(_)
ValidationErrors_shortCircuit(ps) ==
    IF ps = <<>> THEN <<>>
    ELSE LET issues == validatePromptLContent(Head(ps).content, Head(ps).name)
             errorIssues == SelectSeq(issues, IsError)
         IN IF Len(errorIssues) > 0
            THEN <<[name |-> Head(ps).name, issues |-> errorIssues]>>
            ELSE ValidationErrors_shortCircuit(Tail(ps))

\* ------------------------------------------------- tool handlers, tools.ts
\* validateAllPrompts: one entry per prompt with an error-type issue
RECURSIVE ValidationErrors(_)
ValidationErrors(ps) ==
    IF ps = <<>> THEN <<>>
    ELSE LET issues == validatePromptLContent(Head(ps).content, Head(ps).name)
             errorIssues == SelectSeq(issues, IsError)
         IN IF Len(errorIssues) > 0
            THEN <<[name |-> Head(ps).name, issues |-> errorIssues]>>
                    \o ValidationErrors(Tail(ps))
            ELSE ValidationErrors(Tail(ps))

\* a validation that looks at the first prompt only
validateAllPrompts_firstOnly(ps) ==
    [valid |-> Len(ValidationErrors(SubSeq(ps, 1, 1))) = 0,
     errors |-> ValidationErrors(SubSeq(ps, 1, 1))]

validateAllPrompts(ps) ==
    [valid |-> Len(ValidationErrors(ps)) = 0, errors |-> ValidationErrors(ps)]

\* GET /projects/{id}/versions/live/documents: the documents of lv
RECURSIVE ListDocuments(_, _, _)
ListDocuments(lv, hashed, i) ==
    IF i > Len(ListOrder) THEN <<>>
    ELSE IF lv[ListOrder[i]] # NoDoc
    THEN <<Document(ListOrder[i], lv[ListOrder[i]], hashed)>>
            \o ListDocuments(lv, hashed, i + 1)
    ELSE ListDocuments(lv, hashed, i + 1)

\* a loop that, like computeDiff, goes on to delete the documents the prompts
\* do not name
AddChanges_sync(ps, existingMap) ==
    [i \in 1..Len(ps) |->
        Change(ps[i].name, ps[i].content,
               IF MapHas(existingMap, ps[i].name) THEN "modified" ELSE "added")]
        \o DeletedChanges(existingMap, {ps[i].name : i \in 1..Len(ps)})

\* the loop of handleAddPrompt over the prompts (tools.ts:553-575)
RECURSIVE AddChanges(_, _)
AddChanges(ps, existingMap) ==
    IF ps = <<>> THEN <<>>
    ELSE LET prompt == Head(ps)
             rest == AddChanges(Tail(ps), existingMap)
         IN IF MapHas(existingMap, prompt.name)
            THEN IF MapGet(existingMap, prompt.name).content # prompt.content
                 THEN <<Change(prompt.name, prompt.content, "modified")>> \o rest
                 ELSE rest
            ELSE <<Change(prompt.name, prompt.content, "added")>> \o rest

ToolReturn(kind, errors, err) == [kind |-> kind, errors |-> errors, err |-> err]

\* the handler up to its first remote request: the prompts are built and
\* validated, and either the validation errors are returned or
\* listDocuments('live') is requested
HandlerValidate ==
    /\ hpc = "start"
    /\ IF Len(prompts) = 0
       THEN /\ toolResult' = ToolReturn("error", <<>>, NoError)
            /\ hpc' = "done"
       ELSE IF ~validateAllPrompts(prompts).valid
       THEN /\ toolResult' = ToolReturn("validation_error",
                                        validateAllPrompts(prompts).errors, NoError)
            /\ hpc' = "done"
       ELSE /\ hpc' = "list"
            /\ UNCHANGED toolResult
    /\ UNCHANGED <<impl, changes, versionName, pc, calls, draft, commit,
                   publishError, failedDocs, result, frames, mode, live, live0,
                   versions, faults, tool, prompts, existingDocs>>
    /\ UNCHANGED <<req, clock, validation, cache, files>>

\* computeDiff(incoming, existingDocs) in handlePushPrompts, the loop over
\* the prompts in handleAddPrompt
ToolChanges(existing) ==
    IF tool = "push_prompts"
    THEN computeDiff_api(Incoming(prompts), existing)
    ELSE AddChanges(prompts, MapEntries(LiteralPairs(existing), 1))

\* args.versionName || 'push', args.versionName || 'add'
DefaultVersionName == IF tool = "push_prompts" THEN "push" ELSE "add"

\* listDocuments('live') has answered: the change list is built and either
\* deployToLive is called or, with no change, the prompt names are refreshed
HandlerList ==
    /\ hpc = "list"
    /\ \/ /\ \E hashed \in BOOLEAN :
                existingDocs' = ListDocuments(live, hashed, 1)
          /\ calls' = Append(calls, Call("list", LiveRef, <<>>, NoError))
          /\ changes' = ToolChanges(existingDocs')
          /\ IF changes' = <<>>
             THEN /\ hpc' = "refresh"
                  /\ UNCHANGED <<pc, versionName>>
             ELSE /\ hpc' = "deploy"
                  /\ pc' = "start"
                  /\ versionName' = IF versionName # NoName THEN versionName
                                    ELSE DefaultVersionName
          /\ UNCHANGED <<toolResult, faults>>
       \/ /\ Fault
          /\ calls' = Append(calls, Call("list", LiveRef, <<>>, TransientError("list")))
          /\ toolResult' = ToolReturn("error", <<>>, TransientError("list"))
          /\ hpc' = "done"
          /\ UNCHANGED <<existingDocs, changes, pc, versionName>>
    /\ UNCHANGED <<impl, draft, commit, publishError, failedDocs, result, frames,
                   mode, live, live0, versions, tool, prompts>>
    /\ UNCHANGED <<req, clock, validation, cache, files>>

\* deployToLive has returned or raised
HandlerDeployed ==
    /\ hpc = "deploy"
    /\ pc = "done"
    /\ IF result.kind = "result"
       THEN /\ hpc' = "refresh"
            /\ UNCHANGED toolResult
       ELSE /\ toolResult' = ToolReturn("error", <<>>, result.err)
            /\ hpc' = "done"
    /\ UNCHANGED <<impl, changes, versionName, pc, calls, draft, commit,
                   publishError, failedDocs, result, frames, mode, live, live0,
                   versions, faults, tool, prompts, existingDocs>>
    /\ UNCHANGED <<req, clock, validation, cache, files>>

\* forceRefreshAndGetNames (a failed refresh is swallowed) and the success
\* message
HandlerRefresh ==
    /\ hpc = "refresh"
    /\ \/ /\ calls' = Append(calls, Call("list", LiveRef, <<>>, NoError))
          /\ UNCHANGED faults
       \/ /\ Fault
          /\ calls' = Append(calls, Call("list", LiveRef, <<>>, TransientError("list")))
    /\ toolResult' = ToolReturn(IF changes = <<>> THEN "no_changes" ELSE "success",
                                <<>>, NoError)
    /\ hpc' = "done"
    /\ UNCHANGED <<impl, changes, versionName, pc, draft, commit, publishError,
                   failedDocs, result, frames, mode, live, live0, versions, tool,
                   prompts, existingDocs>>
    /\ UNCHANGED <<req, clock, validation, cache, files>>

handlePushPrompts_validate == tool = "push_prompts" /\ HandlerValidate

handlePushPrompts_list == tool = "push_prompts" /\ HandlerList

handlePushPrompts_deployed == tool = "push_prompts" /\ HandlerDeployed

handlePushPrompts_refresh == tool = "push_prompts" /\ HandlerRefresh

handleAddPrompt_validate == tool = "add_prompt" /\ HandlerValidate

handleAddPrompt_list == tool = "add_prompt" /\ HandlerList

handleAddPrompt_deployed == tool = "add_prompt" /\ HandlerDeployed

handleAddPrompt_refresh == tool = "add_prompt" /\ HandlerRefresh

ToolContents == {"ok", "new", "bad", "srv"}

ToolNames == {<<"a">>, <<"/", "a", "/">>, <<"a", "/", "b">>}

\* the paths and contents of the documents that are live before a tool call
ToolLivePaths == {<<"a">>, <<"a", "/", "b">>}

InitTools ==
    /\ tool \in {"push_prompts", "add_prompt"}
    /\ impl = "api"
    /\ prompts \in SeqsUpTo({Prompt(n, c) : n \in ToolNames, c \in ToolContents}, MaxPrompts)
    /\ \E docs \in [ToolLivePaths -> {NoDoc, "old", "ok"}] :
        live = [p \in LivePaths |-> IF p \in ToolLivePaths THEN docs[p] ELSE NoDoc]
    /\ live0 = live
    /\ existingDocs = <<>>
    /\ hpc = "start"
    /\ changes = <<>>
    /\ versionName \in {NoName, "feat/x"}
    /\ pc = "idle"
    /\ calls = <<>>
    /\ draft = NoUuid
    /\ commit = NoUuid
    /\ publishError = NoError
    /\ failedDocs = <<>>
    /\ result = NoResult
    /\ frames = <<>>
    /\ mode = "none"
    /\ versions = <<>>
    /\ faults = 0
    /\ toolResult = NoToolResult
    /\ req = NoRequest
    /\ clock = "coarse"
    /\ validation = NoValidation
    /\ cache = NoCache
    /\ files = NoFiles

NextTools ==
    \/ handlePushPrompts_validate
    \/ handlePushPrompts_list
    \/ handlePushPrompts_deployed
    \/ handlePushPrompts_refresh
    \/ handleAddPrompt_validate
    \/ handleAddPrompt_list
    \/ handleAddPrompt_deployed
    \/ handleAddPrompt_refresh
    \/ deployToLive_api_start
    \/ deployToLive_api_create
    \/ deployToLive_api_push
    \/ deployToLive_api_publish

SpecTools == InitTools /\ [][NextTools]_vars

\* ------------------------------------------------------ request, api.ts
\* const API_TIMEOUT_MS = 60000
API_TIMEOUT_MS == 60000

\* the statuses the remote answers with
Statuses == {200, 201, 204, 404, 422, 500}

\* response.ok
Ok(status) == status >= 200 /\ status <= 299

\* what the body of a non-2xx response parses to: JSON with errorCode, JSON
\* with code only, JSON with neither, or no JSON at all
ErrorBodies == {"errorCode", "code", "plain-json", "not-json"}

\* `HTTP_${response.status}`
HttpCode(status) ==
    CASE status = 404 -> "HTTP_404"
      [] status = 422 -> "HTTP_422"
      [] status = 500 -> "HTTP_500"
      [] OTHER -> "HTTP_2xx"

\* errorCode || code || `HTTP_${response.status}`
ErrorCode(body, status) ==
    IF body = "errorCode" THEN "REMOTE_ERROR_CODE"
    ELSE IF body = "code" THEN "REMOTE_CODE"
    ELSE HttpCode(status)

Outcome(kind, code, status, message) ==
    [kind |-> kind, code |-> code, status |-> status, message |-> message]

\* new LatitudeApiError(errorData, statusCode)
LatitudeApiError(code, status, message) == Outcome("error", code, status, message)

\* the variables request() does not touch
callerVars == <<impl, changes, versionName, pc, calls, draft, commit, publishError,
                failedDocs, result, frames, mode, live, live0, versions, faults,
                tool, prompts, existingDocs, hpc, toolResult, clock, validation, cache, files>>

\* throw new Error('LATITUDE_API_KEY is required'), or the same for
\* LATITUDE_PROJECT_ID: a plain Error, not a LatitudeApiError
ConfigurationError(variable) == Outcome("raw", "Error", 0, <<variable, "is required">>)

\* a getConfig() that asks for the credential alone
request_getConfig_apiKeyOnly ==
    /\ req.pc = "start"
    /\ IF ~req.apiKey
       THEN req' = [req EXCEPT !.pc = "done",
                               !.outcome = ConfigurationError("LATITUDE_API_KEY")]
       ELSE req' = [req EXCEPT !.pc = "fetch", !.timer = "armed", !.sent = @ + 1]
    /\ UNCHANGED callerVars

\* getProjectId() of the operation and getConfig() of request(), both before
\* the first await; then the AbortController and its timer are set up and
\* fetch is called
request_getConfig ==
    /\ req.pc = "start"
    /\ IF ~req.apiKey
       THEN req' = [req EXCEPT !.pc = "done",
                               !.outcome = ConfigurationError("LATITUDE_API_KEY")]
       ELSE IF ~req.projectId
       THEN req' = [req EXCEPT !.pc = "done",
                               !.outcome = ConfigurationError("LATITUDE_PROJECT_ID")]
       ELSE req' = [req EXCEPT !.pc = "fetch", !.timer = "armed", !.sent = @ + 1]
    /\ UNCHANGED callerVars

\* fetch resolves with the response headers: clearTimeout, then the body is
\* read, or {} is returned for an empty one
request_fetch_resolved ==
    /\ req.pc = "fetch"
    /\ req.timer = "armed"
    /\ \E status \in Statuses, empty \in BOOLEAN :
        req' = IF ~Ok(status)
               THEN [req EXCEPT !.pc = "text", !.timer = "cleared", !.status = status]
               ELSE IF empty \/ status = 204
               THEN [req EXCEPT !.pc = "done", !.timer = "cleared", !.status = status,
                                !.outcome = Outcome("value", "", status, <<>>)]
               ELSE [req EXCEPT !.pc = "json", !.timer = "cleared", !.status = status]
    /\ UNCHANGED callerVars

\* a catch block that lets a transport failure through as it is
request_fetch_rejected_rethrown ==
    /\ req.pc = "fetch"
    /\ req.timer = "armed"
    /\ req' = [req EXCEPT !.pc = "done", !.timer = "cleared", !.failure = "transport",
                          !.outcome = Outcome("raw", "TypeError", 0, <<"fetch failed">>)]
    /\ UNCHANGED callerVars

\* fetch rejects for a transport failure: the catch block
request_fetch_rejected ==
    /\ req.pc = "fetch"
    /\ req.timer = "armed"
    /\ req' = [req EXCEPT !.pc = "done", !.timer = "cleared", !.failure = "transport",
                          !.outcome = LatitudeApiError("NETWORK_ERROR", 0, <<"fetch failed">>)]
    /\ UNCHANGED callerVars

\* the timer fires: controller.abort() rejects the pending fetch with an
\* AbortError, and the catch block raises the timeout error
request_abort ==
    /\ req.pc = "fetch"
    /\ req.timer = "armed"
    /\ req' = [req EXCEPT !.pc = "done", !.timer = "fired", !.failure = "abort",
                          !.outcome = LatitudeApiError("TIMEOUT", 408,
                                <<"Request timed out after",
                                  (IF req.timeout # 0 THEN req.timeout ELSE API_TIMEOUT_MS)
                                        \div 1000, "s">>)]
    /\ UNCHANGED callerVars

\* await response.text() of a non-2xx response has completed
request_text_resolved ==
    /\ req.pc = "text"
    /\ \E body \in ErrorBodies :
        req' = [req EXCEPT !.pc = "done",
                           !.outcome = LatitudeApiError(ErrorCode(body, req.status),
                                                        req.status, <<body>>)]
    /\ UNCHANGED callerVars

\* the body of a non-2xx response breaks off: the catch block
request_text_rejected ==
    /\ req.pc = "text"
    /\ req' = [req EXCEPT !.pc = "done", !.failure = "transport",
                          !.outcome = LatitudeApiError("NETWORK_ERROR", 0, <<"terminated">>)]
    /\ UNCHANGED callerVars

\* await response.json() has completed: the value, or a SyntaxError that the
\* catch block turns into the network error
request_json_resolved ==
    /\ req.pc = "json"
    /\ \E valid \in BOOLEAN :
        req' = IF valid
               THEN [req EXCEPT !.pc = "done",
                                !.outcome = Outcome("value", "", req.status, <<"body">>)]
               ELSE [req EXCEPT !.pc = "done", !.failure = "parse",
                                !.outcome = LatitudeApiError("NETWORK_ERROR", 0,
                                                             <<"Unexpected token">>)]
    /\ UNCHANGED callerVars

\* the body of a 2xx response breaks off: the catch block
request_json_rejected ==
    /\ req.pc = "json"
    /\ req' = [req EXCEPT !.pc = "done", !.failure = "transport",
                          !.outcome = LatitudeApiError("NETWORK_ERROR", 0, <<"terminated">>)]
    /\ UNCHANGED callerVars

\* the operations that go through request()
Operations == {"list", "get", "create", "push", "publish"}

\* the request has settled and the operation that made it has not
Settling(op) ==
    /\ req.op = op
    /\ req.pc = "done"
    /\ req.returned = NoOutcome

\* an empty Document[]
EmptyList == Outcome("value", "", 404, <<>>)

\* listDocuments: a 404 for 'live' is a project without a live version
listDocuments_api ==
    /\ impl = "api"
    /\ Settling("list")
    /\ req' = [req EXCEPT !.returned =
                    IF /\ req.outcome.kind = "error"
                       /\ req.outcome.status = 404
                       /\ req.ref = "live"
                    THEN EmptyList
                    ELSE req.outcome]
    /\ UNCHANGED callerVars

\* listDocuments: return request(...)
listDocuments_server ==
    /\ impl = "server"
    /\ Settling("list")
    /\ req' = [req EXCEPT !.returned = req.outcome]
    /\ UNCHANGED callerVars

\* getDocument, createDraftVersion, pushToVersion, publishVersion:
\* return request(...)
operation_return ==
    /\ \E op \in Operations \ {"list"} : Settling(op)
    /\ req' = [req EXCEPT !.returned = req.outcome]
    /\ UNCHANGED callerVars

\* the requests of deployToLive, in order
DeploySteps == <<"create", "push", "publish">>

\* the step after create or push
NextStep(step) == IF step = "create" THEN "push" ELSE "publish"

\* deployToLive: the awaited createDraftVersion or pushToVersion has
\* resolved, the next operation is called
deployToLive_api_await ==
    /\ impl = "api"
    /\ Settling("deploy")
    /\ req.outcome.kind = "value"
    /\ req.step # "publish"
    /\ req' = [req EXCEPT !.pc = "start", !.step = NextStep(req.step),
                          !.timer = "unset", !.status = 0, !.failure = "none",
                          !.outcome = NoOutcome]
    /\ UNCHANGED callerVars

\* deployToLive: publishVersion has resolved, or the catch block re-throws
\* what an awaited operation raised
deployToLive_api_settle ==
    /\ impl = "api"
    /\ Settling("deploy")
    /\ req.outcome.kind # "value" \/ req.step = "publish"
    /\ req' = [req EXCEPT !.returned = req.outcome]
    /\ UNCHANGED callerVars

InitRequest ==
    /\ impl \in {"api", "server"}
    /\ \E op \in Operations \cup {"deploy"}, ref \in {"live", "draft"},
          apiKey \in BOOLEAN, projectId \in BOOLEAN, timeout \in {0, 5000} :
        /\ op = "deploy" => impl = "api"
        /\ op \notin {"list", "get"} => ref = "draft"
        /\ req = [NoRequest EXCEPT !.pc = "start", !.op = op,
                                   !.step = IF op = "deploy" THEN DeploySteps[1] ELSE op,
                                   !.ref = ref, !.apiKey = apiKey,
                                   !.projectId = projectId, !.timeout = timeout]
    /\ tool = "request"
    /\ clock = "coarse"
    /\ validation = NoValidation
    /\ cache = NoCache
    /\ files = NoFiles
    /\ prompts = <<>>
    /\ existingDocs = <<>>
    /\ hpc = "none"
    /\ changes = <<>>
    /\ versionName = NoName
    /\ pc = "idle"
    /\ calls = <<>>
    /\ draft = NoUuid
    /\ commit = NoUuid
    /\ publishError = NoError
    /\ failedDocs = <<>>
    /\ result = NoResult
    /\ frames = <<>>
    /\ mode = "none"
    /\ live = [p \in LivePaths |-> NoDoc]
    /\ live0 = live
    /\ versions = <<>>
    /\ faults = 0
    /\ toolResult = NoToolResult

NextRequest ==
    \/ request_getConfig
    \/ request_abort
    \/ request_fetch_resolved
    \/ request_fetch_rejected
    \/ request_text_resolved
    \/ request_text_rejected
    \/ request_json_resolved
    \/ request_json_rejected
    \/ listDocuments_api
    \/ listDocuments_server
    \/ operation_return
    \/ deployToLive_api_await
    \/ deployToLive_api_settle

\* The program's own steps and its timer are always taken in the end; the
\* remote and the network are free never to answer.
SpecRequest ==
    /\ InitRequest
    /\ [][NextRequest]_vars
    /\ WF_vars(request_getConfig)
    /\ WF_vars(request_abort)

\* ------------------------------------ validatePromptLContent, api.ts:466
\* the most compile errors one scan reports
MaxScanErrors == 2

\* error codes of the checker: two that ERROR_SUGGESTIONS knows, one it does not
ScanCodes == {"parse-error", "variable-not-defined", "other-code"}

\* await scan({prompt, fullPath, requireConfig: false}) resolved with errors
ScanResolved(errors) ==
    [kind |-> "value", errors |-> errors, class |-> "", code |-> ""]

\* scan threw: a CompileError with a code, another Error, or a value that is
\* no Error at all
ScanThrew(class, code) ==
    [kind |-> "throw", errors |-> <<>>, class |-> class, code |-> code]

ScanOutcomes ==
    {ScanResolved(errors) : errors \in SeqsUpTo(ScanCodes, MaxScanErrors)}
        \cup {ScanThrew("CompileError", code) : code \in ScanCodes}
        \cup {ScanThrew("Error", ""), ScanThrew("value", "")}

IssuesReturned(issues) ==
    [kind |-> "value", issues |-> issues, class |-> "", code |-> ""]

IssuesRaised(class, code) ==
    [kind |-> "raised", issues |-> <<>>, class |-> class, code |-> code]

\* the catch block handles a CompileError only and lets the rest through
validatePromptLContent_settle_rethrow(scanned) ==
    IF scanned.kind = "value"
    THEN IssuesReturned([i \in 1..Len(scanned.errors) |->
                            Issue("error", scanned.errors[i])])
    ELSE IF scanned.class = "CompileError"
         THEN IssuesReturned(<<Issue("error", scanned.code)>>)
         ELSE IssuesRaised(scanned.class, scanned.code)

\* the try block pushes one issue per compile error of the result; the catch
\* block pushes one issue for a CompileError and one 'unknown-error' issue
\* for anything else; return issues
validatePromptLContent_settle(scanned) ==
    IF scanned.kind = "value"
    THEN IssuesReturned([i \in 1..Len(scanned.errors) |->
                            Issue("error", scanned.errors[i])])
    ELSE IF scanned.class = "CompileError"
         THEN IssuesReturned(<<Issue("error", scanned.code)>>)
         ELSE IssuesReturned(<<Issue("error", "unknown-error")>>)

\* const result = await scan(...): the checker resolves or throws
validatePromptLContent_scan ==
    /\ validation.pc = "start"
    /\ \E scanned \in ScanOutcomes :
            validation' = [validation EXCEPT !.pc = "scanned", !.scanned = scanned]
    /\ UNCHANGED <<impl, changes, versionName, pc, calls, draft, commit, publishError,
                   failedDocs, result, frames, mode, live, live0, versions, faults,
                   tool, prompts, existingDocs, hpc, toolResult, req, clock, cache, files>>

validatePromptLContent_return ==
    /\ validation.pc = "scanned"
    /\ validation' = [validation EXCEPT
                        !.pc = "done",
                        !.returned = validatePromptLContent_settle(validation.scanned)]
    /\ UNCHANGED <<impl, changes, versionName, pc, calls, draft, commit, publishError,
                   failedDocs, result, frames, mode, live, live0, versions, faults,
                   tool, prompts, existingDocs, hpc, toolResult, req, clock, cache, files>>

InitValidate ==
    /\ \E content \in ToolContents, path \in ToolNames :
            validation = [NoValidation EXCEPT !.pc = "start", !.content = content,
                                              !.path = path]
    /\ tool = "validate"
    /\ impl = "api"
    /\ prompts = <<>>
    /\ existingDocs = <<>>
    /\ hpc = "none"
    /\ changes = <<>>
    /\ versionName = NoName
    /\ pc = "idle"
    /\ calls = <<>>
    /\ draft = NoUuid
    /\ commit = NoUuid
    /\ publishError = NoError
    /\ failedDocs = <<>>
    /\ result = NoResult
    /\ frames = <<>>
    /\ mode = "none"
    /\ live = [p \in LivePaths |-> NoDoc]
    /\ live0 = live
    /\ versions = <<>>
    /\ faults = 0
    /\ toolResult = NoToolResult
    /\ req = NoRequest
    /\ clock = "coarse"
    /\ cache = NoCache
    /\ files = NoFiles

NextValidate == validatePromptLContent_scan \/ validatePromptLContent_return

SpecValidate == InitValidate /\ [][NextValidate]_vars

\* ------------------------------------------ prompt-name cache, tools.ts:52
\* the time of day goes up to MaxTicks steps of Tick milliseconds
MaxTicks == 4

\* const CACHE_TTL_MS = 30000
CACHE_TTL_MS == 30000

\* half the time to live, so that a cache is seen younger than, exactly as
\* old as and older than it
Tick == CACHE_TTL_MS \div 2

\* the most calls of refreshPromptCache that await the remote at one time
MaxInflight == 2

\* docs.map(d => d.path) of what listDocuments('live') may return
RemoteNames == {<<>>, <<PathOf(1)>>, <<PathOf(1), PathOf(2)>>}

otherVars == <<impl, changes, versionName, pc, calls, draft, commit, publishError,
               failedDocs, result, frames, mode, live, live0, versions, faults,
               tool, prompts, existingDocs, hpc, toolResult, req, clock, validation,
               files>>

\* the cache has never been filled, was invalidated since, or its last fill
\* is older than the time to live
Due ==
    \/ cache.lastFill = Never
    \/ cache.invalidated
    \/ cache.now - cache.lastFill > CACHE_TTL_MS

\* !cacheLastUpdated || now.getTime() - cacheLastUpdated.getTime() > CACHE_TTL_MS
Stale == cache.lastUpdated = Never \/ cache.now - cache.lastUpdated > CACHE_TTL_MS

time_passes ==
    /\ cache.now < MaxTicks * Tick
    /\ cache' = [cache EXCEPT !.now = @ + Tick, !.last = "tick"]
    /\ UNCHANGED otherVars

\* registerTools: await refreshPromptCache() when the server starts
registerTools_refresh ==
    /\ ~cache.registered
    /\ cache' = [cache EXCEPT !.registered = TRUE, !.inflight = @ + 1, !.last = "register"]
    /\ UNCHANGED otherVars

\* getCachedPromptNames: refreshes when the cache is stale, else returns
\* cachedPromptNames at once
getCachedPromptNames ==
    /\ cache.registered
    /\ cache.inflight < MaxInflight
    /\ cache' = [cache EXCEPT !.called = TRUE, !.due = Due, !.queried = Stale,
                               !.inflight = IF Stale THEN @ + 1 ELSE @,
                               !.last = "get"]
    /\ UNCHANGED otherVars

\* forceRefreshAndGetNames: cacheLastUpdated = null; refreshPromptCache()
forceRefreshAndGetNames ==
    /\ cache.registered
    /\ cache.inflight < MaxInflight
    /\ cache' = [cache EXCEPT !.lastUpdated = Never, !.invalidated = TRUE,
                               !.inflight = @ + 1, !.last = "force"]
    /\ UNCHANGED otherVars

\* refreshPromptCache: listDocuments('live') returned
refreshPromptCache_resolved ==
    /\ cache.inflight > 0
    /\ \E names \in RemoteNames :
            cache' = [cache EXCEPT !.names = names, !.lastUpdated = cache.now,
                                   !.lastFill = cache.now, !.invalidated = FALSE,
                                   !.inflight = @ - 1, !.last = "filled"]
    /\ UNCHANGED otherVars

\* a failed refresh that stamps the cache all the same
refreshPromptCache_rejected_stamped ==
    /\ cache.inflight > 0
    /\ cache' = [cache EXCEPT !.lastUpdated = cache.now, !.inflight = @ - 1,
                               !.last = "failed"]
    /\ UNCHANGED otherVars

\* refreshPromptCache: listDocuments('live') threw; the catch block logs and
\* returns cachedPromptNames
refreshPromptCache_rejected ==
    /\ cache.inflight > 0
    /\ cache' = [cache EXCEPT !.inflight = @ - 1, !.last = "failed"]
    /\ UNCHANGED otherVars

\* handlePullPrompts after it has written the files of a non-empty project:
\* cachedPromptNames = docs.map(d => d.path); cacheLastUpdated = new Date()
handlePullPrompts_cache ==
    /\ cache.registered
    /\ \E names \in RemoteNames \ {<<>>} :
            cache' = [cache EXCEPT !.names = names, !.lastUpdated = cache.now,
                                   !.lastFill = cache.now, !.invalidated = FALSE,
                                   !.last = "pulled"]
    /\ UNCHANGED otherVars

InitCache ==
    /\ cache = NoCache
    /\ files = NoFiles
    /\ tool = "cache"
    /\ impl = "api"
    /\ prompts = <<>>
    /\ existingDocs = <<>>
    /\ hpc = "none"
    /\ changes = <<>>
    /\ versionName = NoName
    /\ pc = "idle"
    /\ calls = <<>>
    /\ draft = NoUuid
    /\ commit = NoUuid
    /\ publishError = NoError
    /\ failedDocs = <<>>
    /\ result = NoResult
    /\ frames = <<>>
    /\ mode = "none"
    /\ live = [p \in LivePaths |-> NoDoc]
    /\ live0 = live
    /\ versions = <<>>
    /\ faults = 0
    /\ toolResult = NoToolResult
    /\ req = NoRequest
    /\ clock = "coarse"
    /\ validation = NoValidation

NextCache ==
    \/ time_passes
    \/ registerTools_refresh
    \/ getCachedPromptNames
    \/ forceRefreshAndGetNames
    \/ refreshPromptCache_resolved
    \/ refreshPromptCache_rejected
    \/ handlePullPrompts_cache

SpecCache == InitCache /\ [][NextCache]_vars

\* ------------------------------- pull_prompts and filePaths, tools.ts:633
\* the extension of a prompt file, one element of a file name
Extension == ".promptl"

\* `${doc.path.replace(/\//g, '_')}.promptl`
PullFilename(path) ==
    [i \in 1..Len(path) |-> IF path[i] = "/" THEN "_" ELSE path[i]] \o <<Extension>>

\* basename(resolvedPath): what follows the last separator
RECURSIVE basename(_)
basename(filePath) ==
    IF \E i \in 1..Len(filePath) : filePath[i] = "/"
    THEN basename(Tail(filePath))
    ELSE filePath

\* filename.replace(/\.promptl$/, '')
StripExtension(filename) ==
    IF filename # <<>> /\ filename[Len(filename)] = Extension
    THEN SubSeq(filename, 1, Len(filename) - 1)
    ELSE filename

\* readPromptFile: filename.replace(/\.promptl$/, '').replace(/_/g, '/')
PromptName(filename) ==
    LET stem == StripExtension(basename(filename))
    IN [i \in 1..Len(stem) |-> IF stem[i] = "_" THEN "/" ELSE stem[i]]

\* existsSync(resolvedPath)
FileExists(dir, filename) == \E i \in 1..Len(dir) : dir[i].name = filename

\* writeFileSync(filepath, content): the file is created, or overwritten
WriteFile(dir, filename, content) ==
    IF FileExists(dir, filename)
    THEN [i \in 1..Len(dir) |->
            IF dir[i].name = filename THEN [dir[i] EXCEPT !.content = content]
            ELSE dir[i]]
    ELSE Append(dir, [name |-> filename, content |-> content])

\* the loop of handlePullPrompts over docs[i..]: one file per document
RECURSIVE WriteAll(_, _, _)
WriteAll(dir, docs, i) ==
    IF i > Len(docs) THEN dir
    ELSE WriteAll(WriteFile(dir, PullFilename(docs[i].path), docs[i].content),
                  docs, i + 1)

\* the output directory, the paths under which it is submitted to add_prompt
PromptsDir == <<"/", "p", "/">>

\* handlePullPrompts: the .promptl files of the directory are deleted and
\* listDocuments('live') is awaited
handlePullPrompts_list ==
    /\ tool = "pull_prompts"
    /\ hpc = "start"
    /\ files' = NoFiles
    /\ \/ /\ \E hashed \in BOOLEAN :
                existingDocs' = ListDocuments(live, hashed, 1)
          /\ calls' = Append(calls, Call("list", LiveRef, <<>>, NoError))
          /\ IF existingDocs' = <<>>
             THEN /\ toolResult' = ToolReturn("success", <<>>, NoError)
                  /\ hpc' = "done"
             ELSE /\ hpc' = "write"
                  /\ UNCHANGED toolResult
          /\ UNCHANGED faults
       \/ /\ Fault
          /\ calls' = Append(calls, Call("list", LiveRef, <<>>, TransientError("list")))
          /\ toolResult' = ToolReturn("error", <<>>, TransientError("list"))
          /\ hpc' = "done"
          /\ UNCHANGED existingDocs
    /\ UNCHANGED <<impl, changes, versionName, pc, draft, commit, publishError,
                   failedDocs, result, frames, mode, live, live0, versions, tool,
                   prompts, req, clock, validation, cache>>

\* the loop that fetches each document and writes its file, then the cache
\* update and the report; a getDocument that fails ends the loop with the
\* files written so far
handlePullPrompts_write ==
    /\ tool = "pull_prompts"
    /\ hpc = "write"
    /\ \/ /\ files' = [dir |-> WriteAll(files.dir, existingDocs, 1),
                        written |-> [i \in 1..Len(existingDocs) |->
                                        PullFilename(existingDocs[i].path)],
                        pulled |-> TRUE]
          /\ cache' = [cache EXCEPT
                            !.names = [i \in 1..Len(existingDocs) |-> existingDocs[i].path],
                            !.lastUpdated = cache.now, !.lastFill = cache.now,
                            !.invalidated = FALSE, !.last = "pulled"]
          /\ toolResult' = ToolReturn("success", <<>>, NoError)
          /\ UNCHANGED faults
       \/ /\ Fault
          /\ \E k \in 0..(Len(existingDocs) - 1) :
                files' = [files EXCEPT
                            !.dir = WriteAll(files.dir, SubSeq(existingDocs, 1, k), 1)]
          /\ toolResult' = ToolReturn("error", <<>>, TransientError("get"))
          /\ UNCHANGED cache
    /\ hpc' = "done"
    /\ UNCHANGED <<impl, changes, versionName, pc, calls, draft, commit, publishError,
                   failedDocs, result, frames, mode, live, live0, versions, tool,
                   prompts, existingDocs, req, clock, validation>>

\* add_prompt is called with filePaths, every file of the directory as
\* pull_prompts left it: prompts.push(readPromptFile(fp)) for each
handleAddPrompt_filePaths ==
    /\ tool = "pull_prompts"
    /\ hpc = "done"
    /\ files.pulled
    /\ tool' = "add_prompt"
    /\ prompts' = [i \in 1..Len(files.dir) |->
                    Prompt(PromptName(PromptsDir \o files.dir[i].name),
                           files.dir[i].content)]
    /\ hpc' = "start"
    /\ toolResult' = NoToolResult
    /\ calls' = <<>>
    /\ UNCHANGED <<impl, changes, versionName, pc, draft, commit, publishError,
                   failedDocs, result, frames, mode, live, live0, versions, faults,
                   existingDocs, req, clock, validation, cache, files>>

\* the paths and contents of the documents that are live before the pull
PullLivePaths == {<<"a">>, <<"a", "/", "b">>, UnderscorePath}

\* the directory before the pull: empty, or with a file of an earlier pull
StaleDirs == {<<>>, <<[name |-> PullFilename(<<"c">>), content |-> "old"]>>}

InitPull ==
    /\ tool = "pull_prompts"
    /\ impl = "api"
    /\ \E docs \in [PullLivePaths -> {NoDoc, "ok", "new"}] :
        live = [p \in LivePaths |-> IF p \in PullLivePaths THEN docs[p] ELSE NoDoc]
    /\ live0 = live
    /\ \E dir \in StaleDirs : files = [NoFiles EXCEPT !.dir = dir]
    /\ prompts = <<>>
    /\ existingDocs = <<>>
    /\ hpc = "start"
    /\ changes = <<>>
    /\ versionName = NoName
    /\ pc = "idle"
    /\ calls = <<>>
    /\ draft = NoUuid
    /\ commit = NoUuid
    /\ publishError = NoError
    /\ failedDocs = <<>>
    /\ result = NoResult
    /\ frames = <<>>
    /\ mode = "none"
    /\ versions = <<>>
    /\ faults = 0
    /\ toolResult = NoToolResult
    /\ req = NoRequest
    /\ clock = "coarse"
    /\ validation = NoValidation
    /\ cache = [NoCache EXCEPT !.registered = TRUE]

NextPull ==
    \/ handlePullPrompts_list
    \/ handlePullPrompts_write
    \/ handleAddPrompt_filePaths
    \/ handleAddPrompt_validate
    \/ handleAddPrompt_list
    \/ handleAddPrompt_deployed
    \/ handleAddPrompt_refresh
    \/ deployToLive_api_start
    \/ deployToLive_api_create
    \/ deployToLive_api_push
    \/ deployToLive_api_publish

SpecPull == InitPull /\ [][NextPull]_vars

\* ================================================================ claims
IsDeploy == impl \in {"api", "server"}

IsRejected(c) == RemoteRejects(c.content)

\* the change c is what the live version holds at c.path
IsLive(c) ==
    IF c.status = "deleted" THEN live[c.path] = NoDoc ELSE live[c.path] = c.content

AllLive == \A i \in 1..Len(actualChanges) : IsLive(actualChanges[i])

NoneLive == \A i \in 1..Len(actualChanges) : ~IsLive(actualChanges[i])

\* C1: against a remote that rejects a publish exactly when the pushed batch
\* holds a rejected document, the remote pass of identifyFailingDocuments
\* returns exactly the rejected documents of the batch, each once, in batch
\* order, on the per-document path and on the binary-search path.
C1_LocalizationExact ==
    (pc = "done" /\ mode # "none" /\ faults = 0)
        => PathsOf(failedDocs) = PathsOf(SelectSeq(nonDeleteChanges, IsRejected))

C1_Witness ==
    /\ pc = "done"
    /\ mode = "binary"
    /\ faults = 0
    /\ Len(failedDocs) >= 2
    /\ Len(failedDocs) < Len(nonDeleteChanges)

\* C2: no localization probe changes the live version: while and after
\* identifyFailingDocuments runs its probes, the live document set is the
\* one deployToLive was called with.
C2_ProbesKeepLive ==
    (pc = "probing" \/ (pc = "done" /\ mode # "none")) => live = live0

\* C3: deployToLive is atomic: it returns and every real change is live, or
\* it raises and none of them is.
C3_Atomic ==
    (IsDeploy /\ pc = "done")
        => /\ result.kind = "result" => AllLive
           /\ result.kind = "error" => NoneLive

\* C5: a failed publish is always followed by localization over the same
\* change set; failing documents found give the enriched error, none found
\* gives the original publish error.
PublishFailed ==
    /\ calls # <<>>
    /\ calls[Len(calls)].op = "publish"
    /\ calls[Len(calls)].err # NoError

C5_LocalizeThenRaise ==
    (IsDeploy /\ PublishFailed)
        => /\ pc \in {"localize", "probing", "done"}
           /\ pc = "done" =>
                /\ failedDocs = IF mode = "none"
                                THEN LocalFailures(nonDeleteChanges)
                                ELSE LocalizationResult
                /\ Len(failedDocs) > 0 =>
                        result = Raised(DocumentValidationError(failedDocs))
                /\ Len(failedDocs) = 0 => result = Raised(calls[Len(calls)].err)
                /\ mode = "none" =>
                        (Len(nonDeleteChanges) = 0 \/ Len(failedDocs) > 0)

\* C6: an error of the create-draft or push step reaches the caller at once
\* and unmodified: it is the last request made, nothing was published and no
\* probe was started.
C6_CreatePushErrorsPropagate ==
    IsDeploy =>
        \A i \in 1..Len(calls) :
            (calls[i].op \in {"create", "push"} /\ calls[i].err # NoError)
                => /\ i = Len(calls)
                   /\ pc = "done"
                   /\ result = Raised(calls[i].err)
                   /\ frames = <<>>
                   /\ mode = "none"
                   /\ live = live0

C6_Witness ==
    /\ IsDeploy
    /\ pc = "done"
    /\ Len(calls) = 2
    /\ calls[2].op = "push"
    /\ calls[2].err # NoError

\* C7: a deploy with no real change makes no remote request, creates no
\* draft and returns the synthetic live version with nothing processed.
C7_NoOpDeploy ==
    (IsDeploy /\ Len(actualChanges) = 0)
        => /\ calls = <<>>
           /\ versions = <<>>
           /\ frames = <<>>
           /\ pc \in {"start", "done"}
           /\ pc = "done" =>
                /\ result.kind = "result"
                /\ result.documentsProcessed = 0
                /\ result.added = <<>>
                /\ result.modified = <<>>
                /\ result.deleted = <<>>
                /\ result.version = [id |-> 0, uuid |-> LiveRef, status |-> "live"]

C7_Witness ==
    /\ IsDeploy
    /\ pc = "done"
    /\ Len(changes) > 0
    /\ Len(actualChanges) = 0

\* C8: a successful deploy of at least one real change made exactly three
\* requests, create-draft, one push of the whole filtered change set to that
\* draft, and publish, in this order.
C8_SuccessSequence ==
    (IsDeploy /\ pc = "done" /\ result.kind = "result" /\ Len(actualChanges) > 0)
        => /\ Len(calls) = 3
           /\ calls[1].op = "create"
           /\ calls[2].op = "push"
           /\ calls[2].version = draft
           /\ calls[2].body = actualChanges
           /\ calls[3].op = "publish"
           /\ \A i \in 1..3 : calls[i].err = NoError
           /\ DOMAIN versions = {draft}
           /\ versions[draft].changes = actualChanges
           /\ frames = <<>>

C8_Witness ==
    /\ IsDeploy
    /\ pc = "done"
    /\ result.kind = "result"
    /\ Len(actualChanges) >= 2

\* C9: no push request carries a change of status 'unchanged'.
Transmitted(chs) ==
    \A i \in 1..Len(chs) : chs[i].status \in {"added", "modified", "deleted"}

C9_UnchangedNeverPushed ==
    /\ \A i \in 1..Len(calls) : calls[i].op = "push" => Transmitted(calls[i].body)
    /\ \A u \in DOMAIN versions : Transmitted(versions[u].changes)

C9_Witness ==
    /\ Len(actualChanges) > 0
    /\ Len(actualChanges) < Len(changes)
    /\ \E i \in 1..Len(calls) : calls[i].op = "push" /\ calls[i].err = NoError

\* C10: diff completeness, paths compared after normalization.
NormPaths(xs) == {normalizePath(xs[i].path) : i \in 1..Len(xs)}

\* number of changes of status st emitted for the normalized path p
Emitted(p, st) ==
    Cardinality({i \in 1..Len(changes) :
                    normalizePath(changes[i].path) = p /\ changes[i].status = st})

\* some incoming entry of path p differs in content hash from the document
\* stored under p
HashDiffers(p) ==
    \E i \in 1..Len(prompts), j \in 1..Len(existingDocs) :
        /\ normalizePath(prompts[i].name) = p
        /\ normalizePath(existingDocs[j].path) = p
        /\ computeContentHash(prompts[i].content)
                # computeContentHash(existingDocs[j].content)

C10_DiffComplete ==
    (tool = "diff" /\ hpc = "done")
        => LET I == NormPaths(Incoming(prompts))
               E == NormPaths(existingDocs)
           IN /\ \A p \in I \ E : Emitted(p, "added") = 1
              /\ \A p \in E \ I : Emitted(p, "deleted") = 1
              /\ \A p \in I \cap E : HashDiffers(p) => Emitted(p, "modified") = 1
              /\ \A p \in I \cup E :
                    Cardinality({st \in {"added", "modified", "deleted"} :
                                    Emitted(p, st) > 0}) <= 1

\* C4: a batch of push_prompts or add_prompt in which a prompt has an
\* error-type issue is answered with the validation errors, and no request
\* (list, create-draft, push, publish) is ever made for it.
HasErrorPrompt ==
    \E i \in 1..Len(prompts) :
        \E k \in 1..Len(validatePromptLContent(prompts[i].content, prompts[i].name)) :
            validatePromptLContent(prompts[i].content, prompts[i].name)[k].type = "error"

C4_ValidationGate ==
    (tool \in {"push_prompts", "add_prompt"} /\ HasErrorPrompt)
        => /\ calls = <<>>
           /\ versions = <<>>
           /\ live = live0
           /\ pc = "idle"
           /\ hpc \in {"start", "done"}
           /\ hpc = "done" => toolResult.kind = "validation_error"

C4_Witness ==
    /\ tool = "push_prompts"
    /\ hpc = "done"
    /\ HasErrorPrompt
    /\ Len(prompts) = 2
    /\ \E i \in 1..2 : prompts[i].content = "ok"

\* C11: diff idempotence: computeDiff of api.ts, given as existing the
\* documents of the incoming list (same paths, same contents, with or without
\* a precomputed contentHash), returns no change.
SameDocuments ==
    /\ Len(prompts) = Len(existingDocs)
    /\ \A i \in 1..Len(prompts) :
        /\ prompts[i].name = existingDocs[i].path
        /\ prompts[i].content = existingDocs[i].content

C11_DiffIdempotent ==
    (tool = "diff" /\ impl = "api" /\ hpc = "done" /\ SameDocuments) => changes = <<>>

\* C12: paths equal after normalization name the same document: an incoming
\* entry whose normalized path is that of an existing document of equal
\* content yields no change, and an incoming entry whose normalized path
\* matches no existing document yields 'added' under its own path.
ChangesFor(p) == {i \in 1..Len(changes) : normalizePath(changes[i].path) = p}

C12_NormalizedMatch ==
    (tool = "diff" /\ impl = "api" /\ hpc = "done")
        => \A i \in 1..Len(prompts) :
            LET p == normalizePath(prompts[i].name)
            IN /\ (\E j \in 1..Len(existingDocs) :
                        /\ normalizePath(existingDocs[j].path) = p
                        /\ \A k \in 1..Len(prompts) :
                            normalizePath(prompts[k].name) = p
                                => prompts[k].content = existingDocs[j].content)
                    => ChangesFor(p) = {}
               /\ (\A j \in 1..Len(existingDocs) : normalizePath(existingDocs[j].path) # p)
                    => \E k \in ChangesFor(p) :
                        changes[k] = Change(prompts[i].name, prompts[i].content, "added")

\* C13: every 'modified' and every 'deleted' change of computeDiff of api.ts
\* carries the literal path the matching existing document is stored under,
\* and every 'deleted' change has empty content.
C13_StoredPathKept ==
    (tool = "diff" /\ impl = "api" /\ hpc = "done")
        => \A i \in 1..Len(changes) :
            /\ changes[i].status \in {"modified", "deleted"}
                => \E j \in 1..Len(existingDocs) :
                    /\ existingDocs[j].path = changes[i].path
                    /\ changes[i].status = "modified"
                        => \E k \in 1..Len(prompts) :
                            /\ normalizePath(prompts[k].name)
                                    = normalizePath(existingDocs[j].path)
                            /\ prompts[k].content = changes[i].content
                    /\ changes[i].status = "deleted"
                        => \A k \in 1..Len(prompts) :
                            normalizePath(prompts[k].name)
                                # normalizePath(existingDocs[j].path)
            /\ changes[i].status = "deleted" => changes[i].content = ""

C13_Witness ==
    /\ tool = "diff"
    /\ impl = "api"
    /\ hpc = "done"
    /\ \E i, j \in 1..Len(changes) :
        /\ changes[i].status = "modified"
        /\ changes[i].path # normalizePath(changes[i].path)
        /\ \A k \in 1..Len(prompts) : prompts[k].name # changes[i].path
        /\ changes[j].status = "deleted"
        /\ changes[j].path # normalizePath(changes[j].path)

\* C14: the enriched error of deployToLive has code DOCUMENT_VALIDATION_FAILED
\* and status 422 and names exactly the documents localization returned, in
\* the same order; for a rejected batch of 4 locally valid documents of which
\* the remote rejects document 3 only, it names document 3 and no other.
Localized ==
    IF mode = "none" THEN LocalFailures(nonDeleteChanges) ELSE LocalizationResult

OnlyThirdRejected ==
    /\ Len(changes) = 4
    /\ Len(nonDeleteChanges) = 4
    /\ faults = 0
    /\ \A i \in 1..4 : ~LocallyBad(changes[i].content)
    /\ \A i \in 1..4 : RemoteRejects(changes[i].content) <=> i = 3

C14_EnrichedErrorNamesLocalized ==
    (impl = "server" /\ pc = "done" /\ publishError # NoError)
        => /\ result.kind = "error"
           /\ result.err.code = "DOCUMENT_VALIDATION_FAILED" <=> Len(Localized) > 0
           /\ Len(Localized) > 0
                => /\ result.err.status = 422
                   /\ result.err.failedPaths = PathsOf(Localized)
           /\ OnlyThirdRejected => result.err.failedPaths = <<changes[3].path>>

C14_Witness ==
    /\ impl = "server"
    /\ pc = "done"
    /\ OnlyThirdRejected
    /\ mode = "individual"
    /\ result.err.code = "DOCUMENT_VALIDATION_FAILED"

\* C15: when the local pass of identifyFailingDocuments finds an error-type
\* issue in a non-deleted change, localization returns exactly the documents
\* with local errors and makes no request: no probe draft is created, pushed
\* or published.
HasLocalError(c) == c.status # "deleted" /\ LocallyBad(c.content)

C15_LocalPassNoNetwork ==
    (impl = "server" /\ publishError # NoError
        /\ (\E i \in 1..Len(actualChanges) : HasLocalError(actualChanges[i])))
        => /\ pc \in {"localize", "done"}
           /\ frames = <<>>
           /\ mode = "none"
           /\ DOMAIN versions = {draft}
           /\ live = live0
           /\ Len(calls) = 3
           /\ pc = "done" =>
                PathsOf(failedDocs) = PathsOf(SelectSeq(actualChanges, HasLocalError))

C15_Witness ==
    /\ impl = "server"
    /\ pc = "done"
    /\ publishError # NoError
    /\ Len(failedDocs) = 1
    /\ \E i \in 1..Len(nonDeleteChanges) : nonDeleteChanges[i].content = "srv"
    /\ \E i \in 1..Len(actualChanges) : actualChanges[i].status = "deleted"

\* C16: no automatic retry: once the push and publish of the change set of a
\* deployToLive call has failed, no draft is pushed the same change set and
\* submitted for publish again within that call.
PublishRequested(iv) ==
    /\ frames[iv].uuid \in DOMAIN versions
    /\ versions[frames[iv].uuid].changes # <<>>
    /\ frames[iv].pc \in {"done", "wait"}

C16_NoRetry ==
    (impl = "server" /\ publishError # NoError)
        => \A iv \in DOMAIN frames :
            PublishRequested(iv) => versions[frames[iv].uuid].changes # actualChanges

\* C17: a successful deployToLive returns as added, modified and deleted the
\* paths of its input changes of that status, in input order, whatever the
\* remote answered; the single change [a, x, added] gives added = [a],
\* modified = [], deleted = [], documentsProcessed = 1.
RECURSIVE PathsWithStatus(_, _)
PathsWithStatus(chs, st) ==
    IF chs = <<>> THEN <<>>
    ELSE IF Head(chs).status = st
         THEN <<Head(chs).path>> \o PathsWithStatus(Tail(chs), st)
         ELSE PathsWithStatus(Tail(chs), st)

PromptHasError(prompt) ==
    \E k \in 1..Len(validatePromptLContent(prompt.content, prompt.name)) :
        validatePromptLContent(prompt.content, prompt.name)[k].type = "error"

ErrorNames(errors) == [i \in 1..Len(errors) |-> errors[i].name]

PromptNames(ps) == [i \in 1..Len(ps) |-> ps[i].name]

C18_CollectThenDecide ==
    (tool \in {"push_prompts", "add_prompt"} /\ hpc # "start" /\ Len(prompts) > 0)
        => LET invalid == SelectSeq(prompts, PromptHasError)
           IN /\ toolResult.kind = "validation_error" <=> Len(invalid) > 0
              /\ validateAllPrompts(prompts).valid <=> Len(invalid) = 0
              /\ ErrorNames(validateAllPrompts(prompts).errors) = PromptNames(invalid)
              /\ Len(invalid) > 0
                    => /\ ErrorNames(toolResult.errors) = PromptNames(invalid)
                       /\ \A i \in 1..Len(toolResult.errors) :
                            /\ Len(toolResult.errors[i].issues) > 0
                            /\ \A k \in 1..Len(toolResult.errors[i].issues) :
                                toolResult.errors[i].issues[k].type = "error"

C18_Witness ==
    /\ tool = "add_prompt"
    /\ hpc = "done"
    /\ Len(prompts) = 2
    /\ Len(toolResult.errors) = 2

\* C19: every failure of a request that was sent reaches the caller as a
\* LatitudeApiError of exactly one kind: a non-2xx response whose body was
\* read gives the remote error with the response's status, the abort of the
\* timer gives TIMEOUT, any other failure gives NETWORK_ERROR with status 0;
\* nothing else is raised.
Sent == req.timer # "unset"

C19_NormalizedErrors ==
    (tool = "request" /\ req.pc = "done" /\ Sent)
        => /\ req.outcome.kind \in {"value", "error"}
           /\ req.outcome.kind = "value" <=> (req.failure = "none" /\ Ok(req.status))
           /\ req.failure = "abort"
                => (req.outcome.code = "TIMEOUT" /\ req.timer = "fired")
           /\ req.failure \in {"transport", "parse"}
                => (req.outcome.code = "NETWORK_ERROR" /\ req.outcome.status = 0)
           /\ (req.failure = "none" /\ ~Ok(req.status))
                => /\ req.outcome.status = req.status
                   /\ req.outcome.code \notin {"TIMEOUT", "NETWORK_ERROR"}
           /\ req.outcome.code = "TIMEOUT" => req.failure = "abort"
           /\ req.outcome.code = "NETWORK_ERROR" => req.failure \in {"transport", "parse"}

C19_Witness ==
    /\ tool = "request"
    /\ req.pc = "done"
    /\ req.failure = "transport"
    /\ req.status = 500
    /\ req.outcome.kind = "error"

\* C20: every request ends: it returns a value or raises an error, also when
\* the remote never finishes its answer.
C20_RequestsEnd == <>(req.pc = "done")

\* C21: with the API credential or the project identifier missing, every
\* operation of the client (list, get, create-draft, push, publish, and
\* deployToLive with real changes) raises the configuration error, and no
\* network request has been sent.
ConfigurationErrors ==
    {ConfigurationError("LATITUDE_API_KEY"), ConfigurationError("LATITUDE_PROJECT_ID")}

C21_ConfigurationFailsFast ==
    (tool = "request" /\ (~req.apiKey \/ ~req.projectId))
        => /\ req.sent = 0
           /\ req.timer = "unset"
           /\ req.pc \in {"start", "done"}
           /\ req.pc = "done" => req.outcome \in ConfigurationErrors
           /\ req.returned # NoOutcome => req.returned \in ConfigurationErrors

C21_Witness ==
    /\ tool = "request"
    /\ req.op = "deploy"
    /\ req.apiKey
    /\ ~req.projectId
    /\ req.sent = 0
    /\ req.returned = ConfigurationError("LATITUDE_PROJECT_ID")

\* C22: listDocuments returns the empty list when the remote answers 404 for
\* the version 'live'; a 404 for another version reference, and any other
\* error for 'live', is raised to the caller.
LiveNotFound ==
    /\ req.outcome.kind = "error"
    /\ req.outcome.status = 404
    /\ req.ref = "live"

C22_ListDocumentsLive404 ==
    (tool = "request" /\ req.op = "list" /\ req.returned # NoOutcome)
        => /\ LiveNotFound => req.returned = EmptyList
           /\ (req.outcome.kind # "value" /\ ~LiveNotFound) => req.returned = req.outcome

\* the same, of the listDocuments of api.ts alone
C22_ApiOnly == impl = "api" => C22_ListDocumentsLive404

\* C23: push_prompts is a full sync: after a call that reports success, every
\* prompt of the list is live at its path with the content the list gives,
\* and no other prompt is live (what was live and is not in the list has been
\* deleted). Paths are compared as the diff compares them, normalized.
ReportsSuccess == hpc = "done" /\ toolResult.kind \in {"success", "no_changes"}

LiveAt(path, content) ==
    \E p \in LivePaths :
        /\ normalizePath(p) = normalizePath(path)
        /\ live[p] = content

Named(path, ps) ==
    \E i \in 1..Len(ps) : normalizePath(ps[i].name) = normalizePath(path)

C23_FullSync ==
    (tool = "push_prompts" /\ ReportsSuccess)
        => /\ \A i \in 1..Len(prompts) : LiveAt(prompts[i].name, prompts[i].content)
           /\ \A p \in LivePaths : live[p] # NoDoc => Named(p, prompts)

\* no two prompts of the list name the same document
DistinctNames(ps) ==
    \A i, j \in 1..Len(ps) :
        normalizePath(ps[i].name) = normalizePath(ps[j].name) => i = j

\* the same, for the lists that name every document once
C23_DistinctNames == DistinctNames(prompts) => C23_FullSync

\* C24: add_prompt never deletes: the change list it hands to deployToLive
\* holds no change with status 'deleted', and after a call that reports
\* success every prompt that was live before and is not named in the input
\* is live with the content it had.
NamedLiterally(path, ps) == \E i \in 1..Len(ps) : ps[i].name = path

C24_AddNeverDeletes ==
    tool = "add_prompt"
        => /\ \A i \in 1..Len(changes) : changes[i].status \in {"added", "modified"}
           /\ ReportsSuccess
                => \A p \in LivePaths :
                        (live0[p] # NoDoc /\ ~NamedLiterally(p, prompts))
                            => live[p] = live0[p]

C24_Witness ==
    /\ tool = "add_prompt"
    /\ hpc = "done"
    /\ toolResult.kind = "success"
    /\ \E p \in LivePaths : live0[p] # NoDoc /\ ~NamedLiterally(p, prompts)
    /\ \E p \in LivePaths : live0[p] # NoDoc /\ live[p] # live0[p]

\* C25: the two half-batch localizations of binarySearchFailures interleave
\* their remote calls freely: a call that split its batch returns only when
\* both halves have returned, with the failures of the left half followed
\* by those of the right half, whichever half finished first; without
\* transient faults that list is the rejected documents of its batch in
\* batch order.
WasSplit(iv) == Size(iv) > 1 /\ Left(iv) \in DOMAIN frames

C25_HalvesJoinInOrder ==
    \A iv \in DOMAIN frames :
        (WasSplit(iv) /\ frames[iv].pc = "done")
            => /\ frames[Left(iv)].pc = "done"
               /\ frames[Right(iv)].pc = "done"
               /\ frames[iv].first \in {"left", "right"}
               /\ frames[iv].res = frames[Left(iv)].res \o frames[Right(iv)].res
               /\ faults = 0
                    => PathsOf(frames[iv].res)
                            = PathsOf(SelectSeq(Batch(iv), IsRejected))

\* the right half of the whole batch finished first, both halves found a
\* failure, and the call has returned
C25_Witness ==
    /\ mode = "binary"
    /\ LET root == <<1, Len(nonDeleteChanges)>>
       IN /\ root \in DOMAIN frames
          /\ frames[root].pc = "done"
          /\ frames[root].first = "right"
          /\ frames[Left(root)].res # <<>>
          /\ frames[Right(root)].res # <<>>

\* C26: the probe drafts of one localization are distinctly named: no two
\* drafts that identifyFailingDocuments has created carry the same name,
\* the batch probes of the two halves that start at the same clock reading
\* included.
ProbeUuids == DOMAIN versions \ {DeployUuid}

C26_ProbeNamesDistinct ==
    mode # "none"
        => \A u1, u2 \in ProbeUuids :
                u1 # u2 => versions[u1].name # versions[u2].name

\* the same, when the clock moves on between the starts of the two halves
C26_FineClock == clock = "fine" => C26_ProbeNamesDistinct

\* C27: every push of the deploy pipeline and of a localization probe goes
\* to a version that a create-draft call of the same operation has returned
\* and that is still a draft: never to 'live', never to a version that has
\* been published.
IsOpenDraft(u) ==
    /\ u # LiveRef
    /\ u \in DOMAIN versions
    /\ versions[u].status = "draft"

\* the step sends the push of deployToLive
DeployPushes ==
    /\ IsDeploy
    /\ Len(calls') = Len(calls) + 1
    /\ calls'[Len(calls')].op = "push"

\* the step sends the push of the probe iv
ProbePushes(iv) ==
    /\ iv \in DOMAIN frames
    /\ frames[iv].target = NoUuid
    /\ frames'[iv].target # NoUuid

C27_PushTargetsOpenDraft ==
    [][/\ DeployPushes
            => /\ calls'[Len(calls')].version = draft
               /\ IsOpenDraft(draft)
               /\ \E j \in 1..Len(calls) :
                    calls[j].op = "create" /\ calls[j].err = NoError
       /\ \A iv \in DOMAIN frames' :
            ProbePushes(iv)
                => /\ frames'[iv].target = frames[iv].uuid
                   /\ frames[iv].uuid # DeployUuid
                   /\ IsOpenDraft(frames[iv].uuid)]_vars

\* a probe has pushed to its draft and published it, after deployToLive had
\* pushed to its own
C27_Witness ==
    /\ impl = "server"
    /\ \E i \in 1..Len(calls) : calls[i].op = "push" /\ calls[i].version = DeployUuid
    /\ \E iv \in DOMAIN frames :
        /\ frames[iv].target = iv
        /\ versions[iv].status = "merged"
        /\ versions[iv].changes # <<>>

\* C28: the remote pass over a locally valid batch of N non-deleted
\* changes: for N <= 5 it makes exactly N probes, one after another, each
\* pushing exactly one document, and no probe of several documents; for
\* N > 5 its first probe pushes the whole batch.
RemotePass == impl = "server" /\ mode # "none"

\* the probes begun so far are those of documents 1..k, the last one alone
\* may be under way
OneAfterAnother ==
    \E k \in 1..Len(nonDeleteChanges) :
        /\ DOMAIN frames = {<<i, i>> : i \in 1..k}
        /\ \A i \in 1..(k - 1) : frames[<<i, i>>].pc = "done"

\* what the probe iv has pushed, if its push has reached the remote
PushedBy(iv) == IF iv \in DOMAIN versions THEN versions[iv].changes ELSE <<>>

C28_ProbeStrategy ==
    RemotePass
        => LET nd == nonDeleteChanges
               root == <<1, Len(nd)>>
           IN /\ Len(nd) <= IndividualLimit
                    => /\ mode = "individual"
                       /\ OneAfterAnother
                       /\ \A iv \in DOMAIN frames :
                            PushedBy(iv) \in {<<>>, <<nd[iv[1]]>>}
                       /\ pc = "done"
                            => /\ DOMAIN frames = {<<i, i>> : i \in 1..Len(nd)}
                               /\ \A iv \in DOMAIN frames : frames[iv].pc = "done"
              /\ Len(nd) > IndividualLimit
                    => /\ mode = "binary"
                       /\ root \in DOMAIN frames
                       /\ frames[root].pc \in {"create", "push", "publish"}
                            => DOMAIN frames = {root}
                       /\ PushedBy(root) \in {<<>>, nd}
                       /\ frames[root].pc = "publish" => PushedBy(root) = nd

\* five documents, each probed alone, each probe having pushed its document
C28_Witness ==
    /\ RemotePass
    /\ pc = "done"
    /\ Len(nonDeleteChanges) = IndividualLimit
    /\ \A i \in 1..IndividualLimit :
            PushedBy(<<i, i>>) = <<nonDeleteChanges[i]>>

\* C29: on the binary-search path (N > 5), when the probe of the whole batch
\* succeeds, localization returns the empty list after that one probe (one
\* create-draft, one push, one publish) and deployToLive re-throws the
\* publish error it had caught.
WholeBatch == <<1, Len(nonDeleteChanges)>>

WholeBatchProbeSucceeded ==
    /\ impl = "server"
    /\ mode = "binary"
    /\ frames[WholeBatch].pc = "done"
    /\ ~WasSplit(WholeBatch)

C29_CleanBatchRethrows ==
    WholeBatchProbeSucceeded
        => /\ DOMAIN frames = {WholeBatch}
           /\ frames[WholeBatch].res = <<>>
           /\ DOMAIN versions = {DeployUuid, WholeBatch}
           /\ versions[WholeBatch].changes = nonDeleteChanges
           /\ versions[WholeBatch].status = "merged"
           /\ pc \in {"probing", "done"}
           /\ pc = "done"
                => /\ failedDocs = <<>>
                   /\ publishError # NoError
                   /\ publishError = calls[Len(calls)].err
                   /\ result = Raised(publishError)

C29_Witness ==
    /\ WholeBatchProbeSucceeded
    /\ Len(nonDeleteChanges) > IndividualLimit
    /\ pc = "done"
    /\ result.kind = "error"
    /\ result.err.code # "DOCUMENT_VALIDATION_FAILED"

\* C30: on the binary-search path with exactly one rejected document among
\* N documents, 6 <= N <= 16, localization makes at most 2 * ceil(log2 N) + 1
\* probes (create-draft calls).
RECURSIVE CeilLog2(_)
CeilLog2(n) == IF n <= 1 THEN 0 ELSE 1 + CeilLog2((n + 1) \div 2)

\* the probes that have made their create-draft call
Probes == {iv \in DOMAIN frames : frames[iv].pc # "create"}

C30_SparseProbeBound ==
    (impl = "server" /\ mode = "binary" /\ Poisoned(nonDeleteChanges) = 1 /\ faults = 0)
        => /\ Cardinality(DOMAIN frames) <= 2 * CeilLog2(Len(nonDeleteChanges)) + 1
           /\ pc = "done"
                => /\ Probes = DOMAIN frames
                   /\ Len(failedDocs) = 1

\* sixteen documents, the last one rejected: nine probes
C30_Witness ==
    /\ impl = "server"
    /\ pc = "done"
    /\ Len(nonDeleteChanges) = 16
    /\ Poisoned(nonDeleteChanges) = 1
    /\ Cardinality(Probes) = 9
    /\ Len(failedDocs) = 1

\* C31: deletions take no part in localization: no change with status
\* 'deleted' is pushed by a probe or returned as a failed document, and
\* when every change of the failed deploy is a deletion localization
\* returns the empty list without a single request.
DeletedPaths == {changes[i].path : i \in {j \in 1..Len(changes) : IsDeleted(changes[j])}}

OnlyDeletions ==
    /\ Len(actualChanges) > 0
    /\ \A i \in 1..Len(actualChanges) : IsDeleted(actualChanges[i])

AddListed ==
    /\ tool = "add_prompt"
    /\ hpc \in {"deploy", "refresh", "done"}
    /\ calls # <<>>
    /\ calls[1].err = NoError

\* the contents that were live under the normalized path of name
LiveContents(name) ==
    {live0[q] : q \in {r \in LivePaths :
                        live0[r] # NoDoc /\ normalizePath(r) = normalizePath(name)}}

Emits(prompt, status) ==
    \E i \in 1..Len(changes) :
        changes[i] = Change(prompt.name, prompt.content, status)

C32_AddDecidesAsDiff ==
    AddListed
        => \A i \in 1..Len(prompts) :
            LET prompt == prompts[i]
                lives == LiveContents(prompt.name)
            IN /\ Emits(prompt, "modified") <=> (lives \ {prompt.content} # {})
               /\ Emits(prompt, "added") => lives = {}
               /\ prompt.content \in lives
                    => ~Emits(prompt, "added") /\ ~Emits(prompt, "modified")

\* the same, for the prompts named as the live documents are
C32_LiteralNames ==
    (\A i \in 1..Len(prompts) : normalizePath(prompts[i].name) = prompts[i].name)
        => C32_AddDecidesAsDiff

\* C33: the name sent in the create-draft call of deployToLive is the name the
\* caller supplied whenever one is supplied, and a generated timestamp label
\* only when none is supplied.
TimestampLabels == {<<"mcp-draft">>, <<"MCP deploy">>}

DraftCreated == impl \in {"api", "server"} /\ DeployUuid \in DOMAIN versions

C33_DraftNameIsCallers ==
    DraftCreated
        => /\ versionName # NoName => versions[DeployUuid].name = <<versionName>>
           /\ versionName = NoName => versions[DeployUuid].name \in TimestampLabels

\* the same, for the revision whose deployToLive forwards the name
C33_ApiOnly == impl = "api" => C33_DraftNameIsCallers

\* C34: validatePromptLContent never raises: it returns a list of issues
\* whatever the content, the path and the checker's behaviour, and when the
\* checker throws the list is exactly one issue, of type error.
C34_ValidateNeverRaises ==
    /\ validation.returned.kind # "raised"
    /\ validation.pc = "done"
        => /\ validation.returned.kind = "value"
           /\ validation.scanned.kind = "throw"
                => /\ Len(validation.returned.issues) = 1
                   /\ validation.returned.issues[1].type = "error"

C34_Witness ==
    /\ validation.pc = "done"
    /\ validation.scanned = ScanThrew("value", "")
    /\ validation.returned.kind = "value"

\* C35: identifyFailingDocuments terminates when every remote call returns or
\* fails: each recursive call of binarySearchFailures is on a non-empty batch
\* strictly smaller than its caller's, and once the localization has begun,
\* every probe that was started completes and the function returns.
RootFrame == <<1, Len(nonDeleteChanges)>>

SmallerHalf(iv) ==
    \E p \in DOMAIN frames :
        /\ frames[p].pc \in {"wait", "done"}
        /\ iv \in {Left(p), Right(p)}
        /\ 1 <= Size(iv)
        /\ Size(iv) < Size(p)

LocalizationStarted == impl = "server" /\ pc = "localize"

LocalizationReturned ==
    /\ pc = "done"
    /\ \A iv \in DOMAIN frames : frames[iv].pc = "done"

C35_LocalizationTerminates ==
    /\ [](mode = "binary" => \A iv \in DOMAIN frames : iv = RootFrame \/ SmallerHalf(iv))
    /\ LocalizationStarted ~> LocalizationReturned

C35_Witness ==
    /\ mode = "binary"
    /\ pc = "done"
    /\ \E iv \in DOMAIN frames : Size(iv) = 1 /\ frames[iv].res # <<>>
    /\ \A iv \in DOMAIN frames : frames[iv].pc = "done"

\* C36: getCachedPromptNames queries the remote exactly when the cache has
\* never been filled successfully, was force-invalidated, or was last filled
\* more than 30 seconds ago; a failed refresh leaves the cached names and the
\* freshness of the cache as they were, so the next call queries again.
RefreshFailed ==
    /\ cache'.inflight = cache.inflight - 1
    /\ cache'.last = "failed"

C36_CacheFreshness ==
    /\ [](cache.called => (cache.queried <=> cache.due))
    /\ [][RefreshFailed
            => /\ cache'.names = cache.names
               /\ cache'.lastUpdated = cache.lastUpdated
               /\ Stale' = Stale]_vars

C36_Witness ==
    /\ cache.called
    /\ cache.queried
    /\ cache.inflight = 0
    /\ cache.lastFill # Never
    /\ ~cache.invalidated
    /\ cache.now - cache.lastFill > CACHE_TTL_MS
    /\ cache.names # <<>>

\* C37: for every live path p, the name readPromptFile derives from the file
\* pull_prompts writes for p is p, and distinct live paths are written to
\* distinct files, so that add_prompt with the files of a pull, unedited,
\* finds no change.
Resubmitted ==
    /\ files.pulled
    /\ tool = "add_prompt"
    /\ hpc \in {"deploy", "refresh", "done"}
    /\ calls # <<>>
    /\ calls[1].err = NoError

C37_PullPushRoundTrip ==
    files.pulled
        => /\ \A i \in 1..Len(files.written) :
                PromptName(PromptsDir \o files.written[i]) = existingDocs[i].path
           /\ \A i, j \in 1..Len(files.written) :
                i # j => files.written[i] # files.written[j]
           /\ Resubmitted => changes = <<>>

\* the same, when no live path has an underscore in it
C37_NoUnderscore == live0[UnderscorePath] = NoDoc => C37_PullPushRoundTrip

====
